---- MODULE Spec2Model ----
(***************************************************************************)
(* Alert deduplication and the monitoring scheduler of the Soil Savvy      *)
(* backend (Backend/automatic_monitoring.py, Backend/app.py,               *)
(* Backend/weather_monitor.py).                                            *)
(*                                                                         *)
(* Threads.  The scheduler runs AutomaticMonitoring.monitoring_loop in a   *)
(* daemon thread; the Flask server runs every HTTP handler in a thread of  *)
(* its own.  No lock guards the AutomaticMonitoring instance, so the       *)
(* statements of different threads interleave.  One step of the model is   *)
(* one statement of the source that reads or writes shared state.          *)
(*                                                                         *)
(* Time.  Timestamps are kept relative to the current instant: the value   *)
(* of datetime.now() is Now = 0 and a timestamp taken d seconds ago is -d. *)
(* The passing of d seconds (Tick) moves every stored timestamp back by d  *)
(* and runs every sleep timer down by d.  A timestamp older than its       *)
(* domain's window answers every comparison of the code the same way, so   *)
(* it is saturated at window + 1 seconds of age.                           *)
(***************************************************************************)
EXTENDS Integers, Sequences, FiniteSets

\* Python's None; an optional value x that is present is the tuple <<x>>
None == <<>>

\* ------------------------------------------------------------------ constants

\* AutomaticMonitoring.check_interval, seconds
check_interval == 300
\* time.sleep(60) of the loop's top-level exception handler
BackoffSeconds == 60
\* cooldown of a soil alert with a reachable store
SoilWindow == 3600
\* cooldown of a soil alert in testing mode (no store)
SoilTestWindow == 300
\* cooldown of a weather alert
WeatherWindow == 7200

\* soil thresholds (pH in tenths: 5.0 is 50, 8.5 is 85)
MoistureLow == 20
MoistureHigh == 85
SoilTempHigh == 35
SoilTempLow == 5
PhLow == 50
PhHigh == 85

\* weather thresholds
HeatTemp == 30
HeatHighTemp == 35
HeavyRainPrecip == 5
HeavyRainPeriods == 3
UvHigh == 8
DryHumidity == 30
DryTemp == 25
DrySoilMoisture == 30
CtxSoilTempHigh == 28
CtxMoistureLow == 20
CtxMoistureHigh == 85

\* ------------------------------------------------------------------ bounds

\* exceptions that may escape to the loop's top-level handler in one run
MaxFaults == 1
\* start_monitoring calls counted between two stop_monitoring calls
MaxStarts == 2
\* detections counted for one entity
MaxCount == 2
\* detection lines waiting in the pipe of the motion script
MaxPending == 2
\* POST /motion-detect requests served
MaxSessions == 2

\* the amounts of time that pass in one Tick, seconds
TickSteps == {1800}
\* the amounts of time that pass between two frames, milliseconds
FrameSteps == {600}

\* the threads: monitoring_loop threads and HTTP handler threads
Loops == {"loop1", "loop2"}
Handlers == {"http1", "http2"}
Threads == Loops \cup Handlers

\* ------------------------------------------------------------------ evaluators

\* get_user_emails: the one default recipient
get_user_emails == <<"default_email">>

Alert(type, severity) == [type |-> type, severity |-> severity]

\* the fixed reading of testing mode
mock_critical_soil == [temperature |-> 15, moisture |-> 15, pH |-> 45]

\* testing mode evaluating the moisture predicate only
MockMoistureOnly(r) ==
    IF r.moisture < MoistureLow
        THEN <<Alert("critical_low_moisture", "high")>> ELSE <<>>

\* the two predicates testing mode evaluates on the mock reading
MockSoilAlerts(r) ==
    (IF r.moisture < MoistureLow
        THEN <<Alert("critical_low_moisture", "high")>> ELSE <<>>)
    \o (IF r.pH < PhLow
        THEN <<Alert("critical_acidic_soil", "medium")>> ELSE <<>>)

\* the soil predicates with a reading at its threshold counted as critical
SoilAlertsInclusive(r) ==
    (IF r.moisture <= MoistureLow
        THEN <<Alert("critical_low_moisture", "high")>>
        ELSE IF r.moisture >= MoistureHigh
            THEN <<Alert("critical_high_moisture", "high")>> ELSE <<>>)
    \o (IF r.temperature >= SoilTempHigh
        THEN <<Alert("critical_high_soil_temp", "high")>>
        ELSE IF r.temperature <= SoilTempLow
            THEN <<Alert("critical_low_soil_temp", "medium")>> ELSE <<>>)
    \o (IF r.pH <= PhLow
        THEN <<Alert("critical_acidic_soil", "medium")>>
        ELSE IF r.pH >= PhHigh
            THEN <<Alert("critical_alkaline_soil", "medium")>> ELSE <<>>)

\* the threshold predicates on the latest stored reading
SoilAlerts(r) ==
    (IF r.moisture < MoistureLow
        THEN <<Alert("critical_low_moisture", "high")>>
        ELSE IF r.moisture > MoistureHigh
            THEN <<Alert("critical_high_moisture", "high")>> ELSE <<>>)
    \o (IF r.temperature > SoilTempHigh
        THEN <<Alert("critical_high_soil_temp", "high")>>
        ELSE IF r.temperature < SoilTempLow
            THEN <<Alert("critical_low_soil_temp", "medium")>> ELSE <<>>)
    \o (IF r.pH < PhLow
        THEN <<Alert("critical_acidic_soil", "medium")>>
        ELSE IF r.pH > PhHigh
            THEN <<Alert("critical_alkaline_soil", "medium")>> ELSE <<>>)

\* the weather evaluator with a dry_conditions alert that ignores the soil context
WeatherAlertsDryMedium(w, ctx, heavy) ==
    (IF w.temperature > HeatTemp /\ w.main \in {"Clear", "Sun"}
        THEN <<Alert("extreme_heat",
                     IF w.temperature > HeatHighTemp THEN "high" ELSE "medium")>>
        ELSE <<>>)
    \o (IF w.main \in {"Rain", "Thunderstorm"} \/ w.rainy
        THEN <<Alert("rain_warning",
                     IF heavy > HeavyRainPeriods THEN "high" ELSE "medium")>>
        ELSE <<>>)
    \o (IF w.uv_index # None /\ w.uv_index[1] # 0 /\ w.uv_index[1] > UvHigh
        THEN <<Alert("high_uv", "medium")>> ELSE <<>>)
    \o (IF w.humidity < DryHumidity /\ w.temperature > DryTemp
        THEN <<Alert("dry_conditions", "medium")>> ELSE <<>>)
    \o (IF ctx # None /\ ctx[1].soil_temperature > CtxSoilTempHigh
        THEN <<Alert("soil_overheating", "high")>> ELSE <<>>)
    \o (IF ctx # None /\ ctx[1].soil_moisture < CtxMoistureLow
        THEN <<Alert("soil_drought", "high")>>
        ELSE IF ctx # None /\ ctx[1].soil_moisture > CtxMoistureHigh
            THEN <<Alert("soil_waterlogged", "high")>> ELSE <<>>)

\* the weather evaluator leaving dry_conditions to soil_drought when the soil is dry
WeatherAlertsDrySuppressed(w, ctx, heavy) ==
    (IF w.temperature > HeatTemp /\ w.main \in {"Clear", "Sun"}
        THEN <<Alert("extreme_heat",
                     IF w.temperature > HeatHighTemp THEN "high" ELSE "medium")>>
        ELSE <<>>)
    \o (IF w.main \in {"Rain", "Thunderstorm"} \/ w.rainy
        THEN <<Alert("rain_warning",
                     IF heavy > HeavyRainPeriods THEN "high" ELSE "medium")>>
        ELSE <<>>)
    \o (IF w.uv_index # None /\ w.uv_index[1] # 0 /\ w.uv_index[1] > UvHigh
        THEN <<Alert("high_uv", "medium")>> ELSE <<>>)
    \o (IF /\ w.humidity < DryHumidity /\ w.temperature > DryTemp
           /\ ~(ctx # None /\ ctx[1].soil_moisture < CtxMoistureLow)
        THEN <<Alert("dry_conditions",
                     IF ctx # None /\ ctx[1].soil_moisture < DrySoilMoisture
                         THEN "high" ELSE "medium")>>
        ELSE <<>>)
    \o (IF ctx # None /\ ctx[1].soil_temperature > CtxSoilTempHigh
        THEN <<Alert("soil_overheating", "high")>> ELSE <<>>)
    \o (IF ctx # None /\ ctx[1].soil_moisture < CtxMoistureLow
        THEN <<Alert("soil_drought", "high")>>
        ELSE IF ctx # None /\ ctx[1].soil_moisture > CtxMoistureHigh
            THEN <<Alert("soil_waterlogged", "high")>> ELSE <<>>)

\* the weather evaluator with a heat alert under any sky
WeatherAlertsAnySky(w, ctx, heavy) ==
    (IF w.temperature > HeatTemp
        THEN <<Alert("extreme_heat",
                     IF w.temperature > HeatHighTemp THEN "high" ELSE "medium")>>
        ELSE <<>>)
    \o (IF w.main \in {"Rain", "Thunderstorm"} \/ w.rainy
        THEN <<Alert("rain_warning",
                     IF heavy > HeavyRainPeriods THEN "high" ELSE "medium")>>
        ELSE <<>>)
    \o (IF w.uv_index # None /\ w.uv_index[1] # 0 /\ w.uv_index[1] > UvHigh
        THEN <<Alert("high_uv", "medium")>> ELSE <<>>)
    \o (IF w.humidity < DryHumidity /\ w.temperature > DryTemp
        THEN <<Alert("dry_conditions",
                     IF ctx # None /\ ctx[1].soil_moisture < DrySoilMoisture
                         THEN "high" ELSE "medium")>>
        ELSE <<>>)
    \o (IF ctx # None /\ ctx[1].soil_temperature > CtxSoilTempHigh
        THEN <<Alert("soil_overheating", "high")>> ELSE <<>>)
    \o (IF ctx # None /\ ctx[1].soil_moisture < CtxMoistureLow
        THEN <<Alert("soil_drought", "high")>>
        ELSE IF ctx # None /\ ctx[1].soil_moisture > CtxMoistureHigh
            THEN <<Alert("soil_waterlogged", "high")>> ELSE <<>>)

\* WeatherMonitor.check_weather_alerts on a reading w, the soil context ctx
\* (None when no store) and the number heavy of forecast periods whose
\* precipitation exceeds 5.  w.rainy says that the description contains "rain".
check_weather_alerts(w, ctx, heavy) ==
    (IF w.temperature > HeatTemp /\ w.main \in {"Clear", "Sun"}
        THEN <<Alert("extreme_heat",
                     IF w.temperature > HeatHighTemp THEN "high" ELSE "medium")>>
        ELSE <<>>)
    \o (IF w.main \in {"Rain", "Thunderstorm"} \/ w.rainy
        THEN <<Alert("rain_warning",
                     IF heavy > HeavyRainPeriods THEN "high" ELSE "medium")>>
        ELSE <<>>)
    \o (IF w.uv_index # None /\ w.uv_index[1] # 0 /\ w.uv_index[1] > UvHigh
        THEN <<Alert("high_uv", "medium")>> ELSE <<>>)
    \o (IF w.humidity < DryHumidity /\ w.temperature > DryTemp
        THEN <<Alert("dry_conditions",
                     IF ctx # None /\ ctx[1].soil_moisture < DrySoilMoisture
                         THEN "high" ELSE "medium")>>
        ELSE <<>>)
    \o (IF ctx # None /\ ctx[1].soil_temperature > CtxSoilTempHigh
        THEN <<Alert("soil_overheating", "high")>> ELSE <<>>)
    \o (IF ctx # None /\ ctx[1].soil_moisture < CtxMoistureLow
        THEN <<Alert("soil_drought", "high")>>
        ELSE IF ctx # None /\ ctx[1].soil_moisture > CtxMoistureHigh
            THEN <<Alert("soil_waterlogged", "high")>> ELSE <<>>)

SoilTypes == {"critical_low_moisture", "critical_high_moisture",
              "critical_high_soil_temp", "critical_low_soil_temp",
              "critical_acidic_soil", "critical_alkaline_soil"}
WeatherTypes == {"extreme_heat", "rain_warning", "high_uv", "dry_conditions",
                 "soil_overheating", "soil_drought", "soil_waterlogged"}

\* the soil readings the store may hold as its latest document
SoilStore == {[temperature |-> 20, moisture |-> 15, pH |-> 70],
              [temperature |-> 20, moisture |-> 50, pH |-> 70]}

\* the weather readings get_current_weather may return, with the soil context
\* and the forecast count check_weather_alerts then obtains
WeatherInputs ==
    {[w |-> [temperature |-> 32, humidity |-> 50, main |-> "Clear",
             rainy |-> FALSE, uv_index |-> <<5>>], ctx |-> None, heavy |-> 0],
     [w |-> [temperature |-> 20, humidity |-> 60, main |-> "Clouds",
             rainy |-> FALSE, uv_index |-> <<5>>], ctx |-> None, heavy |-> 0]}

\* ------------------------------------------------------------------ time

\* datetime.now()
Now == 0

Min(a, b) == IF a < b THEN a ELSE b
Max(a, b) == IF a > b THEN a ELSE b

\* the timestamp ts as it reads d seconds later, saturated at an age of horizon seconds
Older(ts, d, horizon) ==
    IF ts = None THEN None ELSE <<Max(ts[1] - d, 0 - horizon)>>

\* (datetime.now() - last_sent).total_seconds()
Elapsed(ts) == Now - ts[1]

\* ------------------------------------------------------------------ state

VARIABLES
    db,                 \* AutomaticMonitoring.db is set (a store is reachable)
    monitoring_active,  \* AutomaticMonitoring.monitoring_active
    last_soil_alert,    \* AutomaticMonitoring.last_soil_alert: alert_key -> timestamp
    last_weather_alert, \* AutomaticMonitoring.last_weather_alert
    pc,                 \* the statement each thread is at
    dom,                \* the check a thread is in: "soil" or "weather"
    todo,               \* the alert keys a thread's dispatch loops have yet to offer
    last_sent,          \* the local variable last_sent of a thread's current offer
    timer,              \* the seconds a sleeping loop thread has yet to sleep
    start_result,       \* what a handler's latest start_monitoring() call returned
    faults,             \* exceptions that reached the loop's top-level handler so far
    ran,                \* history: the checks a thread has run in its current iteration
    raised,             \* history: the checks that raised an exception in it
    offered,            \* history: the thread's latest offer and what was decided
    starts,             \* history: start_monitoring calls and loops started since
                        \* the latest stop_monitoring call
    sent_at,            \* history: when the latest alert of each key was forwarded
    seen,               \* history: sent_at of the key when the thread read last_sent
    forwarded,          \* history: the latest alert handed to the channel
    ev_in,              \* the reading an evaluator is called with
    ev_calls,           \* the calls made with ev_in: what each found and returned
    prev_poses,         \* PersonDetector.prev_poses: pose id -> landmark set
    prev_hands,         \* PersonDetector.prev_hands: hand id -> landmark set
    detection_counts,   \* PersonDetector.detection_counts: entity -> count
    last_detections,    \* PersonDetector.last_detections: entity -> timestamp
    stdout,             \* the detection lines the motion script has printed and
                        \* run_motion_detection has not yet read
    motion_detected_flag, \* app.motion_detected_flag
    motion_started,     \* a POST /motion-detect request has started the script
    sessions,           \* the number of POST /motion-detect requests served, each
                        \* of which started a thread and a script of its own
    mailed,             \* history: when the latest motion alert of each entity
                        \* was handed to send_motion_email
    scored,             \* history: what the latest frame scored each entity against
    detections,         \* the entities in the list the latest call of
                        \* detect_multiple_people returned
    hand_owner          \* history: the physical hand whose landmarks prev_hands
                        \* holds under each hand id

\* the state of the monitoring scheduler and its dispatch code
monitor_vars == <<db, monitoring_active, last_soil_alert, last_weather_alert,
                  pc, dom, todo, last_sent, timer, start_result, faults, ran,
                  raised, offered, starts, sent_at, seen, forwarded>>

\* the state of an evaluator call
eval_vars == <<ev_in, ev_calls>>

\* the state of the motion session
motion_vars == <<prev_poses, prev_hands, detection_counts, last_detections,
                 stdout, motion_detected_flag, motion_started, sessions,
                 mailed, scored,
                 detections, hand_owner>>

vars == <<db, monitoring_active, last_soil_alert, last_weather_alert, pc, dom,
          todo, last_sent, timer, start_result, faults, ran, raised, offered,
          starts, sent_at, seen, forwarded, eval_vars, motion_vars>>

\* alert_key = f"{email}_{alert['type']}"
alert_key(email, type) == <<email, type>>

Emails == {get_user_emails[i] : i \in DOMAIN get_user_emails}
SoilKeys == {alert_key(e, t) : e \in Emails, t \in SoilTypes}
WeatherKeys == {alert_key(e, t) : e \in Emails, t \in WeatherTypes}
KeysOf(d) == IF d = "soil" THEN SoilKeys ELSE WeatherKeys

\* for email in user_emails: for alert in alerts: the keys in the order offered
Offers(emails, alerts) ==
    [i \in 1..(Len(emails) * Len(alerts)) |->
        alert_key(emails[((i - 1) \div Len(alerts)) + 1],
                  alerts[((i - 1) % Len(alerts)) + 1].type)]

\* variant: one window, that of the soil alerts, for both domains
WindowOfSoil(d) == IF db THEN SoilWindow ELSE SoilTestWindow

\* the cooldown window the dispatch code of a domain compares with
Window(d) ==
    IF d = "soil" THEN (IF db THEN SoilWindow ELSE SoilTestWindow)
    ELSE WeatherWindow

\* the cooldown map a domain's dispatch code reads and writes
CooldownMap(d) == IF d = "soil" THEN last_soil_alert ELSE last_weather_alert

\* the outcomes of handing an alert to the notification channel
NotificationChannel == {TRUE, FALSE}

Kind(th) == IF th \in Loops THEN "scheduler" ELSE "check_now"

MonitorInit ==
    /\ db \in BOOLEAN
    /\ monitoring_active = FALSE
    /\ last_soil_alert = [k \in SoilKeys |-> None]
    /\ last_weather_alert = [k \in WeatherKeys |-> None]
    /\ pc = [th \in Threads |-> IF th \in Loops THEN "none" ELSE "idle"]
    /\ dom = [th \in Threads |-> "soil"]
    /\ todo = [th \in Threads |-> <<>>]
    /\ last_sent = [th \in Threads |-> None]
    /\ timer = [th \in Loops |-> 0]
    /\ start_result = [h \in Handlers |-> None]
    /\ faults = 0
    /\ ran = [th \in Threads |-> {}]
    /\ raised = [th \in Threads |-> {}]
    /\ offered = [th \in Threads |-> None]
    /\ starts = [calls |-> 0, loops |-> 0]
    /\ sent_at = [d \in {"soil", "weather"} |-> [k \in KeysOf(d) |-> None]]
    /\ seen = [th \in Threads |-> None]
    /\ forwarded = None

\* ------------------------------------------------------------------ time passes

TickMap(m, d, horizon) == [k \in DOMAIN m |-> Older(m[k], d, horizon)]

\* the statements that take no time on the scale of TickSteps: all but the
\* sleeps, the waits for a request and the queries a check begins with
Instant == {"top", "read", "cmp", "send", "complete", "return", "start_flag",
            "start_thread"}

\* d seconds pass: every timestamp is d seconds older, every sleep d seconds shorter
Tick(d) ==
    /\ \A th \in Threads : pc[th] \notin Instant
    /\ last_soil_alert' = TickMap(last_soil_alert, d, Window("soil") + 1)
    /\ last_weather_alert' = TickMap(last_weather_alert, d, Window("weather") + 1)
    /\ sent_at' = [x \in DOMAIN sent_at |-> TickMap(sent_at[x], d, Window(x) + 1)]
    /\ timer' = [th \in Loops |-> Max(0, timer[th] - d)]
    /\ UNCHANGED <<db, monitoring_active, pc, dom, todo, last_sent, start_result,
                   faults, ran, raised, seen, forwarded, offered, starts>>
    /\ UNCHANGED <<eval_vars, motion_vars>>

\* ------------------------------------------------------------------ the checks

\* where a thread goes when a check returns: from the soil check to the weather
\* check; from the weather check to the end of the loop body or of the request
AfterCheck(th, d) ==
    IF d = "soil" THEN "check_weather"
    ELSE IF th \in Loops THEN "complete" ELSE "return"

\* a check has evaluated its reading to alerts: enter the dispatch loops
Dispatch(th, d, alerts) ==
    /\ todo' = [todo EXCEPT ![th] = Offers(get_user_emails, alerts)]
    /\ pc' = [pc EXCEPT ![th] = IF alerts # <<>> THEN "read" ELSE AfterCheck(th, d)]

\* variant: the store query is outside the check's try block, so what it
\* raises leaves the check and reaches the caller's handler
check_soil_unguarded(th) ==
    /\ pc[th] = "check_soil"
    /\ dom' = [dom EXCEPT ![th] = "soil"]
    /\ ran' = [ran EXCEPT ![th] = @ \cup {"soil"}]
    /\ \/ /\ ~db
          /\ Dispatch(th, "soil", MockSoilAlerts(mock_critical_soil))
          /\ UNCHANGED <<raised, timer>>
       \/ /\ db
          /\ raised' = [raised EXCEPT ![th] = @ \cup {"soil"}]
          /\ pc' = [pc EXCEPT ![th] = IF th \in Loops THEN "sleep" ELSE "return"]
          /\ timer' = [l \in Loops |-> IF l = th THEN BackoffSeconds ELSE timer[l]]
          /\ UNCHANGED todo
       \/ /\ db
          /\ Dispatch(th, "soil", <<>>)
          /\ UNCHANGED <<raised, timer>>
       \/ /\ db
          /\ \E r \in SoilStore : Dispatch(th, "soil", SoilAlerts(r))
          /\ UNCHANGED <<raised, timer>>
    /\ UNCHANGED <<db, monitoring_active, last_soil_alert, last_weather_alert,
                   last_sent, start_result, faults, sent_at, seen,
                   forwarded, offered, starts>>
    /\ UNCHANGED <<eval_vars, motion_vars>>

\* check_soil_conditions up to its dispatch loops.  Without a store it evaluates
\* the mock reading; with one it queries the latest readings, and the query may
\* raise (raised by the check's own handler), return nothing, or return a reading
check_soil_conditions(th) ==
    /\ pc[th] = "check_soil"
    /\ dom' = [dom EXCEPT ![th] = "soil"]
    /\ ran' = [ran EXCEPT ![th] = @ \cup {"soil"}]
    /\ \/ /\ ~db
          /\ Dispatch(th, "soil", MockSoilAlerts(mock_critical_soil))
          /\ UNCHANGED raised
       \/ /\ db
          /\ raised' = [raised EXCEPT ![th] = @ \cup {"soil"}]
          /\ Dispatch(th, "soil", <<>>)
       \/ /\ db
          /\ Dispatch(th, "soil", <<>>)
          /\ UNCHANGED raised
       \/ /\ db
          /\ \E r \in SoilStore : Dispatch(th, "soil", SoilAlerts(r))
          /\ UNCHANGED raised
    /\ UNCHANGED <<db, monitoring_active, last_soil_alert, last_weather_alert,
                   last_sent, timer, start_result, faults, sent_at, seen,
                   forwarded, offered, starts>>
    /\ UNCHANGED <<eval_vars, motion_vars>>

\* variant: check_weather_conditions stamping the cooldown map for every alert
\* as soon as the evaluator has created it
check_weather_stamping(th) ==
    /\ pc[th] = "check_weather"
    /\ dom' = [dom EXCEPT ![th] = "weather"]
    /\ ran' = [ran EXCEPT ![th] = @ \cup {"weather"}]
    /\ \/ /\ raised' = [raised EXCEPT ![th] = @ \cup {"weather"}]
          /\ Dispatch(th, "weather", <<>>)
       \/ /\ \E i \in WeatherInputs :
                Dispatch(th, "weather", check_weather_alerts(i.w, i.ctx, i.heavy))
          /\ UNCHANGED raised
    /\ offered' = [offered EXCEPT ![th] = None]
    /\ last_weather_alert' =
          [k \in WeatherKeys |->
              IF \E i \in DOMAIN todo'[th] : todo'[th][i] = k THEN <<Now>>
              ELSE last_weather_alert[k]]
    /\ UNCHANGED <<db, monitoring_active, last_soil_alert,
                   last_sent, timer, start_result, faults, sent_at, seen,
                   forwarded, starts>>
    /\ UNCHANGED <<eval_vars, motion_vars>>

\* check_weather_conditions up to its dispatch loops: the reading is evaluated,
\* or an exception (import, missing field) is raised by the check's own handler
check_weather_conditions(th) ==
    /\ pc[th] = "check_weather"
    /\ dom' = [dom EXCEPT ![th] = "weather"]
    /\ ran' = [ran EXCEPT ![th] = @ \cup {"weather"}]
    /\ \/ /\ raised' = [raised EXCEPT ![th] = @ \cup {"weather"}]
          /\ Dispatch(th, "weather", <<>>)
       \/ /\ \E i \in WeatherInputs :
                Dispatch(th, "weather", check_weather_alerts(i.w, i.ctx, i.heavy))
          /\ UNCHANGED raised
    /\ offered' = [offered EXCEPT ![th] = None]
    /\ UNCHANGED <<db, monitoring_active, last_soil_alert, last_weather_alert,
                   last_sent, timer, start_result, faults, sent_at, seen,
                   forwarded, starts>>
    /\ UNCHANGED <<eval_vars, motion_vars>>

\* ------------------------------------------------------------------ the gate

\* the offer of the key at the head of todo is over: on to the next alert, or
\* out of the dispatch loops
NextOffer(th) ==
    /\ todo' = [todo EXCEPT ![th] = Tail(@)]
    /\ pc' = [pc EXCEPT ![th] =
                 IF Tail(todo[th]) # <<>> THEN "read" ELSE AfterCheck(th, dom[th])]
    /\ last_sent' = [last_sent EXCEPT ![th] = None]
    /\ seen' = [seen EXCEPT ![th] = None]

\* variant: the thread looks the key up in a cooldown map of its own, which
\* holds nothing
ReadNothing(th) ==
    /\ pc[th] = "read"
    /\ last_sent' = [last_sent EXCEPT ![th] = None]
    /\ seen' = [seen EXCEPT ![th] = sent_at[dom[th]][Head(todo[th])]]
    /\ pc' = [pc EXCEPT ![th] = "cmp"]
    /\ UNCHANGED <<db, monitoring_active, last_soil_alert, last_weather_alert,
                   dom, todo, timer, start_result, faults, ran, raised, sent_at,
                   forwarded, offered, starts>>
    /\ UNCHANGED <<eval_vars, motion_vars>>

\* last_sent = self.last_soil_alert.get(alert_key)   (or last_weather_alert)
ReadLast(th) ==
    /\ pc[th] = "read"
    /\ last_sent' = [last_sent EXCEPT ![th] = CooldownMap(dom[th])[Head(todo[th])]]
    /\ seen' = [seen EXCEPT ![th] = sent_at[dom[th]][Head(todo[th])]]
    /\ pc' = [pc EXCEPT ![th] = "cmp"]
    /\ UNCHANGED <<db, monitoring_active, last_soil_alert, last_weather_alert,
                   dom, todo, timer, start_result, faults, ran, raised, sent_at,
                   forwarded, offered, starts>>
    /\ UNCHANGED <<eval_vars, motion_vars>>

\* variant: an alert type once sent to a recipient is never sent again
CooldownOnce(ls, window) == ls = None

\* variant: the cooldown is over as soon as a full window has passed
CooldownInclusive(ls, window) == ls = None \/ Elapsed(ls) >= window

\* not last_sent or (datetime.now() - last_sent).total_seconds() > window
CooldownOver(ls, window) == ls = None \/ Elapsed(ls) > window

\* history: what thread th decided about the key at the head of todo, and how
\* long before that the timestamp it compared had been taken
Decided(th, result) ==
    <<[dom |-> dom[th], key |-> Head(todo[th]), result |-> result,
       since |-> IF last_sent[th] = None THEN None
                 ELSE <<Elapsed(last_sent[th])>>]>>

\* if not last_sent or ... > window:  the branch taken, and in the else branch
\* ("Skipping recent alert") the end of this offer
Compare(th) ==
    /\ pc[th] = "cmp"
    /\ IF CooldownOver(last_sent[th], Window(dom[th]))
          THEN /\ pc' = [pc EXCEPT ![th] = "send"]
               /\ offered' = [offered EXCEPT ![th] = Decided(th, "Sent")]
               /\ UNCHANGED <<todo, last_sent, seen>>
          ELSE /\ NextOffer(th)
               /\ offered' = [offered EXCEPT ![th] = Decided(th, "Suppressed")]
    /\ UNCHANGED <<db, monitoring_active, last_soil_alert, last_weather_alert,
                   dom, timer, start_result, faults, ran, raised, sent_at,
                   forwarded, starts>>
    /\ UNCHANGED <<eval_vars, motion_vars>>

\* variant: a sent alert starts the cooldown of every key of the thread's domain
RecordedAll(th, d, ts) ==
    IF dom[th] = d THEN [k \in KeysOf(d) |-> ts]
    ELSE CooldownMap(d)

\* the map of domain d of thread th after  self.last_..._alert[alert_key] = ts
Recorded(th, d, ts) ==
    IF dom[th] = d THEN [CooldownMap(d) EXCEPT ![Head(todo[th])] = ts]
    ELSE CooldownMap(d)

\* variant: the timestamp is recorded only when the channel accepted the alert
SendThenRecord(th) ==
    /\ pc[th] = "send"
    /\ \E outcome \in NotificationChannel :
          /\ forwarded' = <<[dom |-> dom[th], key |-> Head(todo[th]),
                             by |-> Kind(th), ok |-> outcome]>>
          /\ last_soil_alert' =
                IF outcome THEN Recorded(th, "soil", <<Now>>) ELSE last_soil_alert
          /\ last_weather_alert' =
                IF outcome THEN Recorded(th, "weather", <<Now>>)
                ELSE last_weather_alert
    /\ sent_at' = [sent_at EXCEPT ![dom[th]][Head(todo[th])] = <<Now>>]
    /\ NextOffer(th)
    /\ UNCHANGED <<db, monitoring_active, dom, timer, start_result, faults,
                   ran, raised, offered, starts>>
    /\ UNCHANGED <<eval_vars, motion_vars>>

\* the alert is handed to the channel (whose outcome the code does not look at)
\* and  self.last_..._alert[alert_key] = datetime.now()
SendAlert(th) ==
    /\ pc[th] = "send"
    /\ \E outcome \in NotificationChannel :
          forwarded' = <<[dom |-> dom[th], key |-> Head(todo[th]),
                          by |-> Kind(th), ok |-> outcome]>>
    /\ last_soil_alert' = Recorded(th, "soil", <<Now>>)
    /\ last_weather_alert' = Recorded(th, "weather", <<Now>>)
    /\ sent_at' = [sent_at EXCEPT ![dom[th]][Head(todo[th])] = <<Now>>]
    /\ NextOffer(th)
    /\ UNCHANGED <<db, monitoring_active, dom, timer, start_result, faults,
                   ran, raised, offered, starts>>
    /\ UNCHANGED <<eval_vars, motion_vars>>

\* ------------------------------------------------------------------ the loop

\* the threads of pool that run no loop
FreeLoops(pool) == {th \in pool : pc[th] = "none"}

\* variant: while True, a loop that never looks at the flag
LoopForever(th) ==
    /\ th \in Loops
    /\ pc[th] = "top"
    /\ ran' = [ran EXCEPT ![th] = {}]
    /\ raised' = [raised EXCEPT ![th] = {}]
    /\ \/ /\ pc' = [pc EXCEPT ![th] = "check_soil"]
          /\ UNCHANGED <<timer, faults>>
       \/ /\ monitoring_active
          /\ faults < MaxFaults
          /\ faults' = faults + 1
          /\ pc' = [pc EXCEPT ![th] = "sleep"]
          /\ timer' = [timer EXCEPT ![th] = BackoffSeconds]
    /\ UNCHANGED <<db, monitoring_active, last_soil_alert, last_weather_alert,
                   dom, todo, last_sent, start_result, sent_at, seen,
                   forwarded, offered, starts>>
    /\ UNCHANGED <<eval_vars, motion_vars>>

\* variant: the loop body has no handler, so an exception ends the thread
LoopTopUncaught(th) ==
    /\ th \in Loops
    /\ pc[th] = "top"
    /\ ran' = [ran EXCEPT ![th] = {}]
    /\ raised' = [raised EXCEPT ![th] = {}]
    /\ \/ /\ ~monitoring_active
          /\ pc' = [pc EXCEPT ![th] = "none"]
          /\ UNCHANGED <<timer, faults>>
       \/ /\ monitoring_active
          /\ pc' = [pc EXCEPT ![th] = "check_soil"]
          /\ UNCHANGED <<timer, faults>>
       \/ /\ monitoring_active
          /\ faults < MaxFaults
          /\ faults' = faults + 1
          /\ pc' = [pc EXCEPT ![th] = "none"]
          /\ UNCHANGED timer
    /\ UNCHANGED <<db, monitoring_active, last_soil_alert, last_weather_alert,
                   dom, todo, last_sent, start_result, sent_at, seen,
                   forwarded, offered, starts>>
    /\ UNCHANGED <<eval_vars, motion_vars>>

\* while self.monitoring_active:  the loop ends when the flag is down; otherwise
\* the body begins, where the first statement may raise to the loop's handler,
\* which sleeps 60 seconds
LoopTop(th) ==
    /\ th \in Loops
    /\ pc[th] = "top"
    /\ ran' = [ran EXCEPT ![th] = {}]
    /\ raised' = [raised EXCEPT ![th] = {}]
    /\ \/ /\ ~monitoring_active
          /\ pc' = [pc EXCEPT ![th] = "none"]
          /\ UNCHANGED <<timer, faults>>
       \/ /\ monitoring_active
          /\ pc' = [pc EXCEPT ![th] = "check_soil"]
          /\ UNCHANGED <<timer, faults>>
       \/ /\ monitoring_active
          /\ faults < MaxFaults
          /\ faults' = faults + 1
          /\ pc' = [pc EXCEPT ![th] = "sleep"]
          /\ timer' = [timer EXCEPT ![th] = BackoffSeconds]
    /\ UNCHANGED <<db, monitoring_active, last_soil_alert, last_weather_alert,
                   dom, todo, last_sent, start_result, sent_at, seen,
                   forwarded, offered, starts>>
    /\ UNCHANGED <<eval_vars, motion_vars>>

\* variant: a check that failed makes the loop retry after 60 seconds
LoopRetryAfterFailure(th) ==
    /\ th \in Loops
    /\ pc[th] = "complete"
    /\ pc' = [pc EXCEPT ![th] = "sleep"]
    /\ dom' = [dom EXCEPT ![th] = "soil"]
    /\ ran' = [ran EXCEPT ![th] = {}]
    /\ raised' = [raised EXCEPT ![th] = {}]
    /\ offered' = [offered EXCEPT ![th] = None]
    /\ \/ /\ timer' = [timer EXCEPT ![th] =
                          IF raised[th] = {} THEN check_interval
                          ELSE BackoffSeconds]
          /\ UNCHANGED faults
       \/ /\ faults < MaxFaults
          /\ faults' = faults + 1
          /\ timer' = [timer EXCEPT ![th] = BackoffSeconds]
    /\ UNCHANGED <<db, monitoring_active, last_soil_alert, last_weather_alert,
                   todo, last_sent, start_result, sent_at, seen, forwarded,
                   starts>>
    /\ UNCHANGED <<eval_vars, motion_vars>>

\* after both checks: time.sleep(self.check_interval), or an exception of the
\* closing statements reaches the loop's handler, which sleeps 60 seconds
LoopComplete(th) ==
    /\ th \in Loops
    /\ pc[th] = "complete"
    /\ pc' = [pc EXCEPT ![th] = "sleep"]
    /\ dom' = [dom EXCEPT ![th] = "soil"]
    /\ ran' = [ran EXCEPT ![th] = {}]
    /\ raised' = [raised EXCEPT ![th] = {}]
    /\ offered' = [offered EXCEPT ![th] = None]
    /\ \/ /\ timer' = [timer EXCEPT ![th] = check_interval]
          /\ UNCHANGED faults
       \/ /\ faults < MaxFaults
          /\ faults' = faults + 1
          /\ timer' = [timer EXCEPT ![th] = BackoffSeconds]
    /\ UNCHANGED <<db, monitoring_active, last_soil_alert, last_weather_alert,
                   todo, last_sent, start_result, sent_at, seen, forwarded,
                   starts>>
    /\ UNCHANGED <<eval_vars, motion_vars>>

\* time.sleep returns: back to the while test
LoopWake(th) ==
    /\ th \in Loops
    /\ pc[th] = "sleep"
    /\ timer[th] = 0
    /\ pc' = [pc EXCEPT ![th] = "top"]
    /\ UNCHANGED <<db, monitoring_active, last_soil_alert, last_weather_alert,
                   dom, todo, last_sent, timer, start_result, faults, ran,
                   raised, sent_at, seen, forwarded, offered, starts>>
    /\ UNCHANGED <<eval_vars, motion_vars>>

\* ------------------------------------------------------------------ the requests

\* history: one more start_monitoring call has returned, having started n loops
Started(n) ==
    [calls |-> Min(starts.calls + 1, MaxStarts),
     loops |-> Min(starts.loops + n, MaxStarts)]

\* variant: start_monitoring without the test of the flag
StartAlways(h, pool) ==
    /\ h \in Handlers
    /\ pc[h] = "idle"
    /\ FreeLoops(pool) # {}
    /\ start_result' = [start_result EXCEPT ![h] = None]
    /\ pc' = [pc EXCEPT ![h] = "start_flag"]
    /\ UNCHANGED <<db, monitoring_active, last_soil_alert, last_weather_alert,
                   dom, todo, last_sent, timer, faults, ran, raised, sent_at,
                   seen, forwarded, offered, starts>>
    /\ UNCHANGED <<eval_vars, motion_vars>>

\* start_monitoring: if self.monitoring_active: return True
\* (a request that would start a loop is taken only while pool has a thread left)
StartTest(h, pool) ==
    /\ h \in Handlers
    /\ pc[h] = "idle"
    /\ IF monitoring_active
          THEN /\ start_result' = [start_result EXCEPT ![h] = <<TRUE>>]
               /\ starts' = Started(0)
               /\ UNCHANGED pc
          ELSE /\ FreeLoops(pool) # {}
               /\ start_result' = [start_result EXCEPT ![h] = None]
               /\ pc' = [pc EXCEPT ![h] = "start_flag"]
               /\ UNCHANGED starts
    /\ UNCHANGED <<db, monitoring_active, last_soil_alert, last_weather_alert,
                   dom, todo, last_sent, timer, faults, ran, raised, sent_at,
                   seen, forwarded, offered>>
    /\ UNCHANGED <<eval_vars, motion_vars>>

\* start_monitoring: self.monitoring_active = True
StartFlag(h) ==
    /\ h \in Handlers
    /\ pc[h] = "start_flag"
    /\ monitoring_active' = TRUE
    /\ pc' = [pc EXCEPT ![h] = "start_thread"]
    /\ UNCHANGED <<db, last_soil_alert, last_weather_alert, dom, todo,
                   last_sent, timer, start_result, faults, ran, raised, sent_at,
                   seen, forwarded, offered, starts>>
    /\ UNCHANGED <<eval_vars, motion_vars>>

\* start_monitoring: threading.Thread(target=self.monitoring_loop).start();
\* return True
StartThread(h, pool) ==
    /\ h \in Handlers
    /\ pc[h] = "start_thread"
    /\ \E th \in FreeLoops(pool) : pc' = [pc EXCEPT ![th] = "top", ![h] = "idle"]
    /\ start_result' = [start_result EXCEPT ![h] = <<TRUE>>]
    /\ starts' = Started(1)
    /\ UNCHANGED <<db, monitoring_active, last_soil_alert, last_weather_alert,
                   dom, todo, last_sent, timer, faults, ran, raised, sent_at,
                   seen, forwarded, offered>>
    /\ UNCHANGED <<eval_vars, motion_vars>>

\* variant: stop_monitoring ends the loop threads where they are
stop_preempting(h) ==
    /\ h \in Handlers
    /\ pc[h] = "idle"
    /\ monitoring_active' = FALSE
    /\ starts' = [calls |-> 0, loops |-> 0]
    /\ pc' = [th \in Threads |-> IF th \in Loops THEN "none" ELSE pc[th]]
    /\ todo' = [th \in Threads |-> IF th \in Loops THEN <<>> ELSE todo[th]]
    /\ UNCHANGED <<db, last_soil_alert, last_weather_alert, dom,
                   last_sent, timer, start_result, faults, ran, raised, sent_at,
                   seen, forwarded, offered>>
    /\ UNCHANGED <<eval_vars, motion_vars>>

\* variant: stop_monitoring forgets what has been sent
stop_forgetting(h) ==
    /\ h \in Handlers
    /\ pc[h] = "idle"
    /\ monitoring_active' = FALSE
    /\ starts' = [calls |-> 0, loops |-> 0]
    /\ last_soil_alert' = [k \in SoilKeys |-> None]
    /\ last_weather_alert' = [k \in WeatherKeys |-> None]
    /\ UNCHANGED <<db, pc, dom, todo,
                   last_sent, timer, start_result, faults, ran, raised, sent_at,
                   seen, forwarded, offered>>
    /\ UNCHANGED <<eval_vars, motion_vars>>

\* stop_monitoring: self.monitoring_active = False
stop_monitoring(h) ==
    /\ h \in Handlers
    /\ pc[h] = "idle"
    /\ monitoring_active' = FALSE
    /\ starts' = [calls |-> 0, loops |-> 0]
    /\ UNCHANGED <<db, last_soil_alert, last_weather_alert, pc, dom, todo,
                   last_sent, timer, start_result, faults, ran, raised, sent_at,
                   seen, forwarded, offered>>
    /\ UNCHANGED <<eval_vars, motion_vars>>

\* POST /monitoring/check-now: the handler calls check_soil_conditions and then
\* check_weather_conditions on the global automatic_monitor
check_now(h) ==
    /\ h \in Handlers
    /\ pc[h] = "idle"
    /\ pc' = [pc EXCEPT ![h] = "check_soil"]
    /\ ran' = [ran EXCEPT ![h] = {}]
    /\ raised' = [raised EXCEPT ![h] = {}]
    /\ UNCHANGED <<db, monitoring_active, last_soil_alert, last_weather_alert,
                   dom, todo, last_sent, timer, start_result, faults, sent_at,
                   seen, forwarded, offered, starts>>
    /\ UNCHANGED <<eval_vars, motion_vars>>

\* check_now: both checks have returned; the handler answers "checked"
check_now_return(h) ==
    /\ h \in Handlers
    /\ pc[h] = "return"
    /\ pc' = [pc EXCEPT ![h] = "idle"]
    /\ dom' = [dom EXCEPT ![h] = "soil"]
    /\ ran' = [ran EXCEPT ![h] = {}]
    /\ raised' = [raised EXCEPT ![h] = {}]
    /\ offered' = [offered EXCEPT ![h] = None]
    /\ UNCHANGED <<db, monitoring_active, last_soil_alert, last_weather_alert,
                   todo, last_sent, timer, start_result, faults, sent_at,
                   seen, forwarded, starts>>
    /\ UNCHANGED <<eval_vars, motion_vars>>

\* variant: the status counts the keys whose cooldown is still running
get_status_running ==
    [active |-> monitoring_active,
     check_interval |-> check_interval,
     last_weather_alerts |->
         Cardinality({k \in WeatherKeys :
                         /\ last_weather_alert[k] # None
                         /\ Elapsed(last_weather_alert[k]) <= Window("weather")}),
     last_soil_alerts |->
         Cardinality({k \in SoilKeys :
                         /\ last_soil_alert[k] # None
                         /\ Elapsed(last_soil_alert[k]) <= Window("soil")})]

\* get_status, as the handler of GET /monitoring/status returns it: len() of a
\* cooldown map is the number of keys that hold a timestamp
get_status ==
    [active |-> monitoring_active,
     check_interval |-> check_interval,
     last_weather_alerts |->
         Cardinality({k \in WeatherKeys : last_weather_alert[k] # None}),
     last_soil_alerts |->
         Cardinality({k \in SoilKeys : last_soil_alert[k] # None})]

\* ------------------------------------------------------------------ evaluator calls

\* the soil readings a store may hold as its latest document: every metric at,
\* next to and between its thresholds (pH in tenths)
SoilReadings ==
    {[temperature |-> t, moisture |-> m, pH |-> p] :
        t \in {4, 5, 15, 35, 36}, m \in {15, 20, 50, 85, 86},
        p \in {45, 50, 70, 85, 86}}

\* main and "the description contains rain" of the weather readings
Skies == {<<"Clear", FALSE>>, <<"Sun", FALSE>>, <<"Clouds", FALSE>>,
          <<"Clouds", TRUE>>, <<"Rain", TRUE>>, <<"Thunderstorm", FALSE>>}

\* the weather readings check_weather_alerts may be called with
WeatherReadings ==
    {[temperature |-> t, humidity |-> h, main |-> sky[1], rainy |-> sky[2],
      uv_index |-> u] :
        t \in {25, 26, 30, 31, 32, 35, 36}, h \in {20, 30}, sky \in Skies,
        u \in {None, <<0>>, <<8>>, <<9>>}}

\* get_soil_environmental_data: None without a store, without documents or
\* when the query raises; otherwise the latest soil document
SoilContexts ==
    {None} \cup {<<[soil_temperature |-> t, soil_moisture |-> m]>> :
                    t \in {28, 29}, m \in {19, 20, 25, 30, 85, 86}}

\* the forecasts get_weather_forecast may return, from the provider or from
\* the random mock forecast: the precipitation of each period
Forecasts == {<<6, 6, 6, 5, 0>>, <<6, 6, 6, 6, 0>>}

\* variant: a period with a precipitation of 5 counts as heavy rain
heavy_rain_hours_inclusive(forecast) ==
    Cardinality({i \in DOMAIN forecast : forecast[i] >= HeavyRainPrecip})

\* heavy_rain_hours = sum(1 for f in forecast if f['precipitation'] > 5)
heavy_rain_hours(forecast) ==
    Cardinality({i \in DOMAIN forecast : forecast[i] > HeavyRainPrecip})

\* the number of forecast periods whose precipitation exceeds 5
HeavyCounts == {heavy_rain_hours(f) : f \in Forecasts}

EvalInputs ==
    {[kind |-> "soil", r |-> r] : r \in SoilReadings}
        \cup {[kind |-> "weather", r |-> w] : w \in WeatherReadings}

\* no evaluator call is being looked at
EvalIdle == ev_in = None /\ ev_calls = <<>>

\* the evaluation of check_soil_conditions: of the mock reading without a
\* store, of the latest stored reading with one
EvalSoil ==
    /\ ev_in # None
    /\ ev_in.kind = "soil"
    /\ Len(ev_calls) < 2
    /\ ev_calls' = Append(ev_calls,
            [ctx |-> None, heavy |-> 0,
             out |-> IF db THEN SoilAlerts(ev_in.r)
                     ELSE MockSoilAlerts(mock_critical_soil)])
    /\ UNCHANGED <<ev_in, monitor_vars, motion_vars>>

\* the reading makes check_weather_alerts fetch the forecast
Rainy(w) == w.main \in {"Rain", "Thunderstorm"} \/ w.rainy

\* wm.check_weather_alerts(user_email, current_weather), as the handler of
\* POST /weather/alerts and check_weather_conditions call it: the call itself
\* fetches the soil context and, for a rainy reading, the forecast
EvalWeather ==
    /\ ev_in # None
    /\ ev_in.kind = "weather"
    /\ Len(ev_calls) < 2
    /\ \E ctx \in (IF db THEN SoilContexts ELSE {None}),
          forecast \in (IF Rainy(ev_in.r) THEN Forecasts ELSE {<<>>}) :
          ev_calls' = Append(ev_calls,
              [ctx |-> ctx, heavy |-> heavy_rain_hours(forecast),
               forecast |-> forecast,
               out |-> check_weather_alerts(ev_in.r, ctx,
                                            heavy_rain_hours(forecast))])
    /\ UNCHANGED <<ev_in, monitor_vars, motion_vars>>

\* ------------------------------------------------------------------ incomplete readings

\* a value a document may lack: None, or <<v>>
Opt(S) == {None} \cup {<<v>> : v \in S}

\* the soil documents the store may hold, each field present or not
SoilDocs ==
    {[temperature |-> t, moisture |-> m, pH |-> p] :
        t \in Opt({15, 36}), m \in Opt({15, 50}), p \in Opt({45, 70})}

\* data.get(field, default)
Get(v, default) == IF v = None THEN default ELSE v[1]

\* the reading check_soil_conditions builds from a document:
\* data.get('temperature', 20), data.get('moisture', 50), data.get('pH', 7.0)
soil_reading(data) ==
    [temperature |-> Get(data.temperature, 20),
     moisture |-> Get(data.moisture, 50),
     pH |-> Get(data.pH, 70)]

\* the weather readings a source may hand over with fields missing; rainy is
\* the description (whether it contains "rain")
WeatherDocs ==
    {[temperature |-> t, humidity |-> h, main |-> m, rainy |-> d,
      uv_index |-> u] :
        t \in Opt({32}), h \in Opt({20}), m \in Opt({"Clear", "Rain"}),
        d \in Opt({FALSE, TRUE}), u \in Opt({9})}

\* the fields check_weather_alerts reads with weather_data[...]: temperature
\* and main for the heat alert, main and description for the rain alert and
\* its message, humidity for the dry_conditions alert
Complete(data) ==
    /\ data.temperature # None
    /\ data.humidity # None
    /\ data.main # None
    /\ data.rainy # None

\* a complete document as the reading it is
weather_reading(data) ==
    [temperature |-> data.temperature[1], humidity |-> data.humidity[1],
     main |-> data.main[1], rainy |-> data.rainy[1],
     uv_index |-> data.uv_index]

DocInputs ==
    {[kind |-> "soil_doc", data |-> d] : d \in SoilDocs}
        \cup {[kind |-> "weather_doc", data |-> d] : d \in WeatherDocs}

\* check_soil_conditions on a stored document
EvalSoilDoc ==
    /\ ev_in # None
    /\ ev_in.kind = "soil_doc"
    /\ db
    /\ Len(ev_calls) < 2
    /\ ev_calls' = Append(ev_calls,
            [ctx |-> None, heavy |-> 0, raised |-> FALSE,
             out |-> SoilAlerts(soil_reading(ev_in.data))])
    /\ UNCHANGED <<ev_in, monitor_vars, motion_vars>>

\* check_weather_alerts on a reading with fields missing: reading a missing
\* field raises KeyError, and the call returns no alert list
EvalWeatherDoc ==
    /\ ev_in # None
    /\ ev_in.kind = "weather_doc"
    /\ Len(ev_calls) < 2
    /\ \E ctx \in (IF db THEN SoilContexts ELSE {None}) :
          ev_calls' = Append(ev_calls,
              IF Complete(ev_in.data)
                  THEN [ctx |-> ctx, heavy |-> 0, raised |-> FALSE,
                        out |-> check_weather_alerts(weather_reading(ev_in.data),
                                                     ctx, 0)]
                  ELSE [ctx |-> ctx, heavy |-> 0, raised |-> TRUE,
                        out |-> <<>>])
    /\ UNCHANGED <<ev_in, monitor_vars, motion_vars>>

\* ------------------------------------------------------------------ the soil query

\* the documents of soil_data: a dry one, a normal one, a hot one and one
\* without any field
QueryDocs ==
    {[temperature |-> <<20>>, moisture |-> <<15>>, pH |-> <<70>>],
     [temperature |-> <<20>>, moisture |-> <<50>>, pH |-> <<70>>],
     [temperature |-> <<36>>, moisture |-> <<50>>, pH |-> <<70>>],
     [temperature |-> None, moisture |-> None, pH |-> None]}

\* what order_by('timestamp', DESCENDING).limit(5).get() may return, the most
\* recent document first: nothing, one or two documents, or five of which the
\* four older ones are alike
SoilQueries ==
    {<<>>} \cup {<<d>> : d \in QueryDocs}
           \cup {<<d, e>> : d \in QueryDocs, e \in QueryDocs}
           \cup {<<d, e, e, e, e>> : d \in QueryDocs, e \in QueryDocs}

\* variant: the alerts are those of the oldest reading fetched
soil_query_oldest(docs) ==
    IF docs = <<>> THEN <<>>
    ELSE LET soil_readings == [i \in DOMAIN docs |-> soil_reading(docs[i])]
             latest_reading == soil_readings[Len(soil_readings)]
         IN  SoilAlerts(latest_reading)

\* check_soil_conditions on the documents its query returned: no document, no
\* alert; otherwise a reading is built of every document and the alerts are
\* those of latest_reading = soil_readings[0]
soil_query_alerts(docs) ==
    IF docs = <<>> THEN <<>>
    ELSE LET soil_readings == [i \in DOMAIN docs |-> soil_reading(docs[i])]
             latest_reading == soil_readings[1]
         IN  SoilAlerts(latest_reading)

QueryInputs == {[kind |-> "soil_query", docs |-> q] : q \in SoilQueries}

\* check_soil_conditions on a query result: the alerts, and the keys it then
\* offers to its dispatch loops
EvalSoilQuery ==
    /\ ev_in # None
    /\ ev_in.kind = "soil_query"
    /\ db
    /\ Len(ev_calls) < 2
    /\ ev_calls' = Append(ev_calls,
            [ctx |-> None, heavy |-> 0, raised |-> FALSE,
             out |-> soil_query_alerts(ev_in.docs),
             todo |-> Offers(get_user_emails,
                             soil_query_alerts(ev_in.docs))])
    /\ UNCHANGED <<ev_in, monitor_vars, motion_vars>>

\* ------------------------------------------------------------------ weather sources

\* what a query of the store finds: no document, an exception, or a document;
\* and what the request to the weather API does
StoreAnswers == {"none", "raises", "data"}
ApiAnswers == {"ok", "raises"}

\* get_outdoor_sensor_data: None without a store, when the query raises or
\* finds no document, otherwise the reading built from the document
get_outdoor_sensor_data(store, outdoor) ==
    IF ~store THEN None
    ELSE IF outdoor = "data" THEN <<[source |-> "outdoor_sensors"]>>
    ELSE None

\* get_soil_environmental_data, as far as it is available or not
get_soil_environmental_data(store, soil) ==
    IF ~store THEN None
    ELSE IF soil = "data" THEN <<[source |-> "soil_sensors"]>>
    ELSE None

\* variant: the weather API is asked first, the sensors after it
WeatherApiFirst(store, outdoor, soil, api) ==
    IF api = "ok" THEN [source |-> "open_meteo_api"]
    ELSE IF get_outdoor_sensor_data(store, outdoor) # None
        THEN get_outdoor_sensor_data(store, outdoor)[1]
    ELSE IF get_soil_environmental_data(store, soil) # None
        THEN [source |-> "soil_sensors_estimated"]
    ELSE [source |-> "realistic_mock"]

\* get_current_weather: the outdoor sensors, else the estimate from the soil
\* sensors, else the weather API, else (the request raised) the synthetic
\* reading of _get_realistic_mock_weather_data
get_current_weather(store, outdoor, soil, api) ==
    IF get_outdoor_sensor_data(store, outdoor) # None
        THEN get_outdoor_sensor_data(store, outdoor)[1]
    ELSE IF get_soil_environmental_data(store, soil) # None
        THEN [source |-> "soil_sensors_estimated"]
    ELSE IF api = "ok" THEN [source |-> "open_meteo_api"]
    ELSE [source |-> "realistic_mock"]

SourceInputs ==
    {[kind |-> "sources", outdoor |-> o, soil |-> s, api |-> a] :
        o \in StoreAnswers, s \in StoreAnswers, a \in ApiAnswers}

\* a call of get_current_weather
EvalSources ==
    /\ ev_in # None
    /\ ev_in.kind = "sources"
    /\ Len(ev_calls) < 2
    /\ ev_calls' = Append(ev_calls,
            [ctx |-> None, heavy |-> 0, raised |-> FALSE,
             out |-> get_current_weather(db, ev_in.outdoor, ev_in.soil,
                                         ev_in.api)])
    /\ UNCHANGED <<ev_in, monitor_vars, motion_vars>>

\* ------------------------------------------------------------------ weather summary

\* the label get_weather_summary appends for the source tag of the reading
SummaryLabel(data_source) ==
    IF data_source = "outdoor_sensors" THEN "(Real outdoor sensors)"
    ELSE IF data_source = "soil_sensors_estimated"
        THEN "(Estimated from soil sensors)"
    ELSE IF data_source = "openweather_api" THEN "(Weather API)"
    ELSE "(Mock data)"

\* get_weather_summary: the source tag of the current reading and the label
\* the summary text ends with
get_weather_summary(store, outdoor, soil, api) ==
    LET current == get_current_weather(store, outdoor, soil, api)
        data_source == current.source
    IN  [weather |-> data_source, summary |-> SummaryLabel(data_source)]

SummaryInputs ==
    {[kind |-> "summary", outdoor |-> o, soil |-> s, api |-> a] :
        o \in StoreAnswers, s \in StoreAnswers, a \in ApiAnswers}

\* a call of get_weather_summary
EvalSummary ==
    /\ ev_in # None
    /\ ev_in.kind = "summary"
    /\ Len(ev_calls) < 2
    /\ ev_calls' = Append(ev_calls,
            [ctx |-> None, heavy |-> 0, raised |-> FALSE,
             out |-> get_weather_summary(db, ev_in.outdoor, ev_in.soil,
                                         ev_in.api)])
    /\ UNCHANGED <<ev_in, monitor_vars, motion_vars>>

\* ------------------------------------------------------------------ motion scoring

\* Lengths are in units of 0.0001 of the normalised image, visibilities in
\* hundredths, times of the motion session in milliseconds.

\* DEFAULT_THRESHOLD = 0.001
DEFAULT_THRESHOLD == 10
\* MIN_CONFIDENCE = 0.3
MIN_CONFIDENCE == 30
\* the age under which draw_clean_overlay counts an entity as active: 1.0 s
ActiveWindow == 1000

\* joint_names and finger_names: the landmark indices that have a name
joint_names ==
    [i \in {0} \cup (11..16) \cup (23..28) |->
        CASE i = 0 -> "nose"
          [] i = 11 -> "left_shoulder" [] i = 12 -> "right_shoulder"
          [] i = 13 -> "left_elbow" [] i = 14 -> "right_elbow"
          [] i = 15 -> "left_wrist" [] i = 16 -> "right_wrist"
          [] i = 23 -> "left_hip" [] i = 24 -> "right_hip"
          [] i = 25 -> "left_knee" [] i = 26 -> "right_knee"
          [] i = 27 -> "left_ankle" [] i = 28 -> "right_ankle"]
finger_names ==
    [i \in {0, 4, 8, 12, 16, 20} |->
        CASE i = 0 -> "wrist" [] i = 4 -> "thumb_tip"
          [] i = 8 -> "index_tip" [] i = 12 -> "middle_tip"
          [] i = 16 -> "ring_tip" [] i = 20 -> "pinky_tip"]

Landmark(x, y, z, visibility) ==
    [x |-> x, y |-> y, z |-> z, visibility |-> visibility]

\* the landmark sets the vision library may report for a pose or a hand: index
\* 0 is a named joint, index 1 is not.  Still; the named joint moved by 20 (a
\* mean of 10, the threshold itself); both moved by 20; an invisible landmark
\* at a distance
Still == <<Landmark(0, 0, 0, 90), Landmark(0, 0, 0, 90)>>
Nudged == <<Landmark(20, 0, 0, 90), Landmark(0, 0, 0, 90)>>
Moved == <<Landmark(20, 0, 0, 90), Landmark(20, 0, 0, 90)>>
Hidden == <<Landmark(0, 48, 0, 20), Landmark(0, 0, 0, 90)>>
\* five landmarks at rest, and the same with landmark 4 moved by 20: index 4
\* is the thumb tip of a hand and an unnamed landmark of a pose
Open == [i \in 1..5 |-> Landmark(0, 0, 0, 90)]
Spread == [i \in 1..5 |-> Landmark(IF i = 5 THEN 20 ELSE 0, 0, 0, 90)]
LandmarkSets == {Still, Nudged, Moved, Hidden, Open, Spread}

Abs(a) == IF a < 0 THEN 0 - a ELSE a

\* np.sqrt((curr.x - prev.x)**2 + (curr.y - prev.y)**2 + (curr.z - prev.z)**2),
\* on landmarks whose distances are whole numbers
Dist(curr, prev) ==
    LET dx == Abs(curr.x - prev.x)
        dy == Abs(curr.y - prev.y)
        dz == Abs(curr.z - prev.z)
    IN  CHOOSE r \in 0..(dx + dy + dz) :
            r * r <= dx * dx + dy * dy + dz * dz
            /\ (r + 1) * (r + 1) > dx * dx + dy * dy + dz * dz

RECURSIVE Sum(_)
Sum(q) == IF q = <<>> THEN 0 ELSE Head(q) + Sum(Tail(q))

\* the subsequence of the indices i of 1..n, in order, that satisfy keep
RECURSIVE Pick(_, _)
Pick(n, keep) ==
    IF n = 0 THEN <<>>
    ELSE Pick(n - 1, keep) \o (IF n \in keep THEN <<n>> ELSE <<>>)

\* variant: a first sighting is scored against a subject at rest
MotionFromRest(current, prev, landmark_type) ==
    LET rest == IF prev = None THEN Still ELSE prev[1]
        n == Min(Len(current), Len(rest))
        names == IF landmark_type = "pose" THEN joint_names
                 ELSE finger_names
        compared ==
            {i \in 1..n :
                \/ landmark_type = "pose"
                   /\ current[i].visibility > MIN_CONFIDENCE
                \/ landmark_type = "hands"}
        idx == Pick(n, compared)
        distances == [j \in 1..Len(idx) |->
                         Dist(current[idx[j]], rest[idx[j]])]
        active ==
            {i \in compared :
                /\ Dist(current[i], rest[i]) > DEFAULT_THRESHOLD
                /\ (i - 1) \in DOMAIN names}
        act == Pick(n, active)
    IN  [motion |-> IF distances = <<>> THEN 0
                    ELSE Sum(distances) \div Len(distances),
         active_joints |-> [j \in 1..Len(act) |-> names[act[j] - 1]]]

\* variant: every landmark pair of a pose is compared, whatever its visibility
MotionAllVisible(current, prev, landmark_type) ==
    IF prev = None THEN [motion |-> 0, active_joints |-> <<>>]
    ELSE
        LET n == Min(Len(current), Len(prev[1]))
            names == IF landmark_type = "pose" THEN joint_names
                     ELSE finger_names
            compared ==
                {i \in 1..n : landmark_type \in {"pose", "hands"}}
            idx == Pick(n, compared)
            distances == [j \in 1..Len(idx) |->
                             Dist(current[idx[j]], prev[1][idx[j]])]
            active ==
                {i \in compared :
                    /\ Dist(current[i], prev[1][i]) > DEFAULT_THRESHOLD
                    /\ (i - 1) \in DOMAIN names}
            act == Pick(n, active)
        IN  [motion |-> IF distances = <<>> THEN 0
                        ELSE Sum(distances) \div Len(distances),
             active_joints |-> [j \in 1..Len(act) |-> names[act[j] - 1]]]

\* calculate_motion(current_landmarks, prev_landmarks, landmark_type): the
\* mean distance of the compared landmark pairs and the names of the joints
\* that moved.  prev is None or <<landmark set>>.
calculate_motion(current, prev, landmark_type) ==
    IF prev = None THEN [motion |-> 0, active_joints |-> <<>>]
    ELSE
        LET n == Min(Len(current), Len(prev[1]))
            names == IF landmark_type = "pose" THEN joint_names
                     ELSE finger_names
            compared ==
                {i \in 1..n :
                    \/ landmark_type = "pose"
                       /\ current[i].visibility > MIN_CONFIDENCE
                    \/ landmark_type = "hands"}
            idx == Pick(n, compared)
            distances == [j \in 1..Len(idx) |->
                             Dist(current[idx[j]], prev[1][idx[j]])]
            active ==
                {i \in compared :
                    /\ Dist(current[i], prev[1][i]) > DEFAULT_THRESHOLD
                    /\ (i - 1) \in DOMAIN names}
            act == Pick(n, active)
        IN  [motion |-> IF distances = <<>> THEN 0
                        ELSE Sum(distances) \div Len(distances),
             active_joints |-> [j \in 1..Len(act) |-> names[act[j] - 1]]]

\* the (current, previous, kind) triples calculate_motion may be called with
MotionInputs ==
    {[kind |-> "motion", current |-> c, prev |-> q, landmark_type |-> t] :
        c \in LandmarkSets, q \in {None} \cup {<<l>> : l \in LandmarkSets},
        t \in {"pose", "hands", "face"}}

\* a call of calculate_motion
EvalMotion ==
    /\ ev_in # None
    /\ ev_in.kind = "motion"
    /\ Len(ev_calls) < 2
    /\ ev_calls' = Append(ev_calls,
            [ctx |-> None, heavy |-> 0,
             out |-> calculate_motion(ev_in.current, ev_in.prev,
                                      ev_in.landmark_type)])
    /\ UNCHANGED <<ev_in, monitor_vars, motion_vars>>

\* ------------------------------------------------------------------ entity tracker

\* the hand indices of one frame, and the one pose subject (person_id = 0)
HandIds == {0, 1}
PoseIds == {0}

\* variant: the first hand is recorded under the key of the pose subject
HandKeyShared(i) == IF i = 0 THEN "0" ELSE "hand_1"

\* the keys of detection_counts and last_detections: person_id 0 of the pose
\* subject (written "0") and f"hand_{hand_id}"
HandKey(i) == IF i = 0 THEN "hand_0" ELSE "hand_1"
Entities == {"0"} \cup {HandKey(i) : i \in HandIds}

\* what the vision library may find in a frame: pose_landmarks (None or
\* <<landmark set>>) and multi_hand_landmarks
PoseSets == {Still, Nudged, Moved}
HandSets == {Still, Moved}
HandLists ==
    {<<>>} \cup {<<l>> : l \in HandSets}
           \cup {<<l, m>> : l \in HandSets, m \in HandSets}

\* the physical hands in front of the camera
PhysicalHands == {"hand_a", "hand_b"}

\* frames in which the vision library lists hand_a before hand_b; who names
\* the physical hand behind each entry of multi_hand_landmarks
Frames ==
    {[pose |-> q, hands |-> h, who |-> SubSeq(<<"hand_a", "hand_b">>, 1, Len(h))] :
        q \in {None} \cup {<<l>> : l \in PoseSets}, h \in HandLists}

\* frames without a pose subject in which the vision library lists the hands
\* it finds in any order
HandFrames ==
    {f \in {[pose |-> None, hands |-> h, who |-> o] :
                h \in HandLists,
                o \in {<<>>} \cup {<<a>> : a \in PhysicalHands}
                         \cup {<<"hand_a", "hand_b">>, <<"hand_b", "hand_a">>}} :
        Len(f.who) = Len(f.hands)}

\* PersonDetector.__init__, an empty pipe, a cleared flag.  A count of 0 is a
\* key that detection_counts does not hold
MotionInit ==
    /\ prev_poses = [i \in PoseIds |-> None]
    /\ prev_hands = [i \in HandIds |-> None]
    /\ detection_counts = [e \in Entities |-> 0]
    /\ last_detections = [e \in Entities |-> None]
    /\ stdout = <<>>
    /\ motion_detected_flag = FALSE
    /\ motion_started = FALSE
    /\ sessions = 0
    /\ mailed = [e \in Entities |-> None]
    /\ scored = [e \in Entities |-> None]
    /\ detections = {}
    /\ hand_owner = [i \in HandIds |-> None]

\* calculate_motion on every pair of landmark sets of a kind
Motions ==
    [t \in {"pose", "hands"} |->
        [c \in LandmarkSets |->
            [q \in LandmarkSets |-> calculate_motion(c, <<q>>, t)]]]

\* variant: an entity without previous landmarks is scored against a subject
\* at rest
ScoreFromRest(current, prev, landmark_type) ==
    Motions[landmark_type][current][IF prev # None THEN prev[1] ELSE Still]

\* the motion of an entity whose landmarks are current, against what the
\* tracker holds for it:  if id in detector.prev_...: calculate_motion(...)
Score(current, prev, landmark_type) ==
    IF prev # None THEN Motions[landmark_type][current][prev[1]]
    ELSE [motion |-> 0, active_joints |-> <<>>]

\* variant: the tracker keeps the landmarks an entity had at its first sighting
\* or latest detection, and replaces them only when a motion is detected
detect_keep_reference(frame) ==
    LET hands == {i \in HandIds : i < Len(frame.hands)}
        pose_motion ==
            IF frame.pose = None THEN 0
            ELSE Score(frame.pose[1], prev_poses[0], "pose").motion
        hand_motion(i) == Score(frame.hands[i + 1], prev_hands[i], "hands").motion
        detected ==
            {e \in {"0"} : frame.pose # None /\ pose_motion > DEFAULT_THRESHOLD}
                \cup {HandKey(i) : i \in {j \in hands :
                                             hand_motion(j) > DEFAULT_THRESHOLD}}
    IN  /\ \A e \in detected : detection_counts[e] < MaxCount
        /\ prev_poses' = IF frame.pose # None
                            /\ (prev_poses[0] = None \/ "0" \in detected)
                             THEN [prev_poses EXCEPT ![0] = frame.pose]
                         ELSE prev_poses
        /\ prev_hands' = [i \in HandIds |->
                             IF i \in hands /\ (prev_hands[i] = None
                                                  \/ HandKey(i) \in detected)
                                 THEN <<frame.hands[i + 1]>>
                             ELSE prev_hands[i]]
        /\ detection_counts' = [e \in Entities |->
                                   IF e \in detected THEN detection_counts[e] + 1
                                   ELSE detection_counts[e]]
        /\ last_detections' = [e \in Entities |->
                                  IF e \in detected THEN <<Now>>
                                  ELSE last_detections[e]]
        /\ detections' = detected
        /\ hand_owner' = [i \in HandIds |->
                             IF i \in hands THEN <<frame.who[i + 1]>>
                             ELSE hand_owner[i]]
        /\ scored' = [e \in Entities |->
              IF e = "0" /\ frame.pose # None
                  THEN <<[current |-> frame.pose[1], prev |-> prev_poses[0],
                          motion |-> pose_motion]>>
              ELSE IF \E i \in hands : e = HandKey(i)
                  THEN LET i == CHOOSE j \in hands : e = HandKey(j)
                       IN  <<[current |-> frame.hands[i + 1],
                              prev |-> prev_hands[i],
                              motion |-> hand_motion(i)]>>
              ELSE None]
        /\ UNCHANGED <<stdout, motion_detected_flag, motion_started, sessions,
                       mailed,
                       monitor_vars, eval_vars>>

\* variant: a motion equal to the threshold is recorded as a detection
detect_inclusive(frame) ==
    LET hands == {i \in HandIds : i < Len(frame.hands)}
        pose_motion ==
            IF frame.pose = None THEN 0
            ELSE Score(frame.pose[1], prev_poses[0], "pose").motion
        hand_motion(i) == Score(frame.hands[i + 1], prev_hands[i], "hands").motion
        detected ==
            {e \in {"0"} : frame.pose # None /\ pose_motion >= DEFAULT_THRESHOLD}
                \cup {HandKey(i) : i \in {j \in hands :
                                             hand_motion(j) >= DEFAULT_THRESHOLD}}
    IN  /\ \A e \in detected : detection_counts[e] < MaxCount
        /\ prev_poses' = IF frame.pose = None THEN prev_poses
                         ELSE [prev_poses EXCEPT ![0] = frame.pose]
        /\ prev_hands' = [i \in HandIds |->
                             IF i \in hands THEN <<frame.hands[i + 1]>>
                             ELSE prev_hands[i]]
        /\ detection_counts' = [e \in Entities |->
                                   IF e \in detected THEN detection_counts[e] + 1
                                   ELSE detection_counts[e]]
        /\ last_detections' = [e \in Entities |->
                                  IF e \in detected THEN <<Now>>
                                  ELSE last_detections[e]]
        /\ detections' = detected
        /\ hand_owner' = [i \in HandIds |->
                             IF i \in hands THEN <<frame.who[i + 1]>>
                             ELSE hand_owner[i]]
        /\ scored' = [e \in Entities |->
              IF e = "0" /\ frame.pose # None
                  THEN <<[current |-> frame.pose[1], prev |-> prev_poses[0],
                          motion |-> pose_motion]>>
              ELSE IF \E i \in hands : e = HandKey(i)
                  THEN LET i == CHOOSE j \in hands : e = HandKey(j)
                       IN  <<[current |-> frame.hands[i + 1],
                              prev |-> prev_hands[i],
                              motion |-> hand_motion(i)]>>
              ELSE None]
        /\ UNCHANGED <<stdout, motion_detected_flag, motion_started, sessions,
                       mailed,
                       monitor_vars, eval_vars>>

\* detect_multiple_people(frame, detector): the pose subject and then every
\* hand of the frame is scored against its previous landmarks, which are then
\* replaced, and a motion above the threshold is recorded as a detection
detect_multiple_people(frame) ==
    LET hands == {i \in HandIds : i < Len(frame.hands)}
        pose_motion ==
            IF frame.pose = None THEN 0
            ELSE Score(frame.pose[1], prev_poses[0], "pose").motion
        hand_motion(i) == Score(frame.hands[i + 1], prev_hands[i], "hands").motion
        detected ==
            {e \in {"0"} : frame.pose # None /\ pose_motion > DEFAULT_THRESHOLD}
                \cup {HandKey(i) : i \in {j \in hands :
                                             hand_motion(j) > DEFAULT_THRESHOLD}}
    IN  /\ \A e \in detected : detection_counts[e] < MaxCount
        /\ prev_poses' = IF frame.pose = None THEN prev_poses
                         ELSE [prev_poses EXCEPT ![0] = frame.pose]
        /\ prev_hands' = [i \in HandIds |->
                             IF i \in hands THEN <<frame.hands[i + 1]>>
                             ELSE prev_hands[i]]
        /\ detection_counts' = [e \in Entities |->
                                   IF e \in detected THEN detection_counts[e] + 1
                                   ELSE detection_counts[e]]
        /\ last_detections' = [e \in Entities |->
                                  IF e \in detected THEN <<Now>>
                                  ELSE last_detections[e]]
        /\ detections' = detected
        /\ hand_owner' = [i \in HandIds |->
                             IF i \in hands THEN <<frame.who[i + 1]>>
                             ELSE hand_owner[i]]
        /\ scored' = [e \in Entities |->
              IF e = "0" /\ frame.pose # None
                  THEN <<[current |-> frame.pose[1], prev |-> prev_poses[0],
                          motion |-> pose_motion]>>
              ELSE IF \E i \in hands : e = HandKey(i)
                  THEN LET i == CHOOSE j \in hands : e = HandKey(j)
                       IN  <<[current |-> frame.hands[i + 1],
                              prev |-> prev_hands[i],
                              motion |-> hand_motion(i)]>>
              ELSE None]
        /\ UNCHANGED <<stdout, motion_detected_flag, motion_started, sessions,
                       mailed,
                       monitor_vars, eval_vars>>

\* time passes in the motion session: every timestamp is d milliseconds older
MotionTick(d) ==
    /\ last_detections' = TickMap(last_detections, d, ActiveWindow + 1)
    /\ mailed' = TickMap(mailed, d, ActiveWindow + 1)
    /\ UNCHANGED <<prev_poses, prev_hands, detection_counts, stdout,
                   motion_detected_flag, motion_started, sessions, scored,
                   detections,
                   hand_owner, monitor_vars, eval_vars>>

\* ------------------------------------------------------------------ motion session

\* the state of the tracker inside the motion script
tracker_vars == <<prev_poses, prev_hands, detection_counts, last_detections,
                  scored, detections, hand_owner>>

\* POST /motion-detect: the flag is cleared and a thread starts the script
motion_detect ==
    /\ sessions < MaxSessions
    /\ motion_detected_flag' = FALSE
    /\ motion_started' = TRUE
    /\ sessions' = sessions + 1
    /\ UNCHANGED <<stdout, mailed, tracker_vars, monitor_vars, eval_vars>>

\* the lines the script prints: the detection line of an entity (main prints
\* one for each detection of a frame), or any other line
Lines == Entities \cup {"other"}

\* the script of a session, the latest or an earlier one that is still
\* running, prints a line, which waits in its pipe for the thread of that
\* session.  stdout holds the lines of all pipes in the order printed
EmitLine(line) ==
    /\ motion_started
    /\ Len(stdout) < MaxPending
    /\ \E s \in 1..sessions :
          stdout' = Append(stdout, [line |-> line, session |-> s])
    /\ UNCHANGED <<motion_detected_flag, motion_started, sessions, mailed,
                   tracker_vars,
                   monitor_vars, eval_vars>>

\* run_motion_detection: one round of its loop.  A line is read; a detection
\* line sets the flag and is handed to send_motion_email
run_motion_detection ==
    /\ stdout # <<>>
    /\ stdout' = Tail(stdout)
    /\ IF Head(stdout).line \in Entities
          THEN /\ motion_detected_flag' = TRUE
               /\ mailed' = [mailed EXCEPT ![Head(stdout).line] = <<Now>>]
          ELSE UNCHANGED <<motion_detected_flag, mailed>>
    /\ UNCHANGED <<motion_started, sessions, tracker_vars, monitor_vars,
                   eval_vars>>

\* ------------------------------------------------------------------ specification

\* one statement of a thread that is inside a check
CheckStep(th) ==
    \/ check_soil_conditions(th)
    \/ check_weather_conditions(th)
    \/ ReadLast(th)
    \/ Compare(th)
    \/ SendAlert(th)

LoopStep(th) == LoopTop(th) \/ LoopComplete(th) \/ LoopWake(th) \/ CheckStep(th)

\* The gate: one scheduler loop at a time and one handler thread, which serves
\* start, stop and check-now requests
GateLoops == {"loop1"}
GateHandlers == {"http1"}

Next ==
    \/ \E d \in TickSteps : Tick(d)
    \/ \E th \in GateLoops : LoopStep(th)
    \/ \E h \in GateHandlers :
          \/ StartTest(h, GateLoops)
          \/ StartFlag(h)
          \/ StartThread(h, GateLoops)
          \/ stop_monitoring(h)
          \/ check_now(h)
          \/ CheckStep(h)
          \/ check_now_return(h)

Init == MonitorInit /\ EvalIdle /\ MotionInit

Spec == Init /\ [][Next]_vars

\* The scheduler: a handler thread serves start and stop requests, and a
\* loop started while an earlier loop has not yet ended runs beside it
SchedNext ==
    \/ \E d \in TickSteps : Tick(d)
    \/ \E th \in Loops : LoopStep(th)
    \/ \E h \in GateHandlers :
          \/ StartTest(h, Loops)
          \/ StartFlag(h)
          \/ StartThread(h, Loops)
          \/ stop_monitoring(h)

SchedSpec == Init /\ [][SchedNext]_vars

\* The life of one loop: a handler thread serves start and stop requests, and
\* a start waits for the loop of the previous run to have ended
LiveNext ==
    \/ \E d \in TickSteps : Tick(d)
    \/ \E th \in GateLoops : LoopStep(th)
    \/ \E h \in GateHandlers :
          \/ StartTest(h, GateLoops)
          \/ StartFlag(h)
          \/ StartThread(h, GateLoops)
          \/ stop_monitoring(h)

\* ... under the scheduling the threads run with: time passes, a loop thread
\* that can take a step takes it, and a start_monitoring call that has passed
\* its test runs to its return
LiveSpec ==
    /\ Init
    /\ [][LiveNext]_vars
    /\ WF_vars(\E d \in TickSteps : Tick(d))
    /\ \A th \in GateLoops : WF_vars(LoopStep(th))
    /\ \A h \in GateHandlers :
          WF_vars(StartFlag(h) \/ StartThread(h, GateLoops))

\* The evaluators and the motion scorer, each called twice on an input
EvalInit ==
    /\ MonitorInit
    /\ MotionInit
    /\ ev_in \in EvalInputs \cup MotionInputs \cup DocInputs \cup SourceInputs
                \cup QueryInputs \cup SummaryInputs
    /\ ev_calls = <<>>

EvalNext ==
    \/ EvalSoil
    \/ EvalWeather
    \/ EvalMotion
    \/ EvalSoilDoc
    \/ EvalWeatherDoc
    \/ EvalSources
    \/ EvalSoilQuery
    \/ EvalSummary

EvalSpec == EvalInit /\ [][EvalNext]_vars

\* The tracker of the motion script, frame after frame
MotionNext == \E frame \in Frames : detect_multiple_people(frame)

MotionSpec == Init /\ [][MotionNext]_vars

\* The tracker when hands enter and leave the frame
HandNext == \E frame \in HandFrames : detect_multiple_people(frame)

HandSpec == Init /\ [][HandNext]_vars

\* The motion session of the server: the script's lines and their reader
SessionNext ==
    \/ motion_detect
    \/ \E line \in Lines : EmitLine(line)
    \/ run_motion_detection
    \/ \E d \in FrameSteps : MotionTick(d)

SessionSpec == Init /\ [][SessionNext]_vars

\* ------------------------------------------------------------------ properties

\* C1 (cooldown suppression): once an alert of a key has been forwarded at time
\* t, no offer for that key is Sent at a time t' with t <= t' < t + window:
\* whenever a thread forwards an alert, the key's previous forward, if there
\* was one, lies at least a window back.
C1_CooldownSuppression ==
    [][\A th \in Threads :
          (pc[th] = "send" /\ pc'[th] # "send") =>
              LET prev == sent_at[dom[th]][Head(todo[th])]
              IN  prev = None \/ Now - prev[1] >= Window(dom[th])]_vars

\* C2 (same-key race): the read of last_sent, the comparison and the write are
\* atomic, so two threads are never both past the comparison and before the
\* write for the same key (where both would be Sent).
C2_AtomicOffer ==
    \A t1, t2 \in Threads :
        (t1 # t2 /\ pc[t1] = "send" /\ pc[t2] = "send" /\ dom[t1] = dom[t2])
            => Head(todo[t1]) # Head(todo[t2])

\* C3 as stated (expiry boundary, inclusive): an offer decided when the key's
\* latest forward lies a full window or more back, the offer made exactly one
\* window after it included, is Sent.
C3_ExpiryInclusive ==
    [][\A th \in Threads :
          LET prev == sent_at[dom[th]][Head(todo[th])]
          IN  (/\ pc[th] = "cmp" /\ pc'[th] # "cmp"
               /\ prev # None
               /\ Now - prev[1] >= Window(dom[th])) => pc'[th] = "send"]_vars

\* C3 (expiry boundary, exclusive): an offer decided when the key's latest
\* forward lies more than a window back is Sent.
C3_ExpiryExclusive ==
    [][\A th \in Threads :
          LET prev == sent_at[dom[th]][Head(todo[th])]
          IN  (/\ pc[th] = "cmp" /\ pc'[th] # "cmp"
               /\ prev # None
               /\ Now - prev[1] > Window(dom[th])) => pc'[th] = "send"]_vars

\* a thread has decided Sent for a key whose previous forward is more than a
\* window old
C3_Witness ==
    \E th \in Threads :
        /\ pc[th] = "send"
        /\ sent_at[dom[th]][Head(todo[th])] # None
        /\ Elapsed(sent_at[dom[th]][Head(todo[th])]) > Window(dom[th])

\* C4 (offer decision rule): the comparison decides Sent exactly when the
\* offer read no timestamp or one more than a window old, and leaves the maps
\* alone; a Sent offer sets the key's timestamp to now and no other.
C4_OfferRule ==
    [][\A th \in Threads :
          LET k == Head(todo[th])
              m == CooldownMap(dom[th])
              n == IF dom[th] = "soil" THEN last_soil_alert'
                   ELSE last_weather_alert'
          IN  /\ (pc[th] = "cmp" /\ pc'[th] # "cmp") =>
                    /\ (pc'[th] = "send") <=>
                          (\/ last_sent[th] = None
                           \/ Now - last_sent[th][1] > Window(dom[th]))
                    /\ last_soil_alert' = last_soil_alert
                    /\ last_weather_alert' = last_weather_alert
              /\ (pc[th] = "send" /\ pc'[th] # "send") =>
                    /\ n[k] = <<Now>>
                    /\ \A j \in DOMAIN m : j # k => n[j] = m[j]
                    /\ dom[th] = "soil" => last_weather_alert' = last_weather_alert
                    /\ dom[th] # "soil" => last_soil_alert' = last_soil_alert]_vars

\* the third offer of the scenario: with the one-hour window, a soil offer that
\* read a timestamp 3601 seconds old has been decided Sent
C4_Witness ==
    \E th \in Threads :
        /\ db
        /\ offered[th] # None
        /\ offered[th][1].dom = "soil"
        /\ offered[th][1].result = "Sent"
        /\ offered[th][1].since = <<SoilWindow + 1>>

\* C5 (idempotent start): once start_monitoring has returned, and for as long
\* as stop_monitoring is not called, however often start_monitoring is called
\* again, the flag is up, every call has returned True and exactly one loop
\* has been started.
C5_IdempotentStart ==
    starts.calls >= 1 =>
        /\ monitoring_active
        /\ starts.loops = 1
        /\ \A h \in GateHandlers : pc[h] = "idle" => start_result[h] = <<TRUE>>

\* start_monitoring has returned twice since the latest stop_monitoring
C5_Witness == starts.calls = 2 /\ starts.loops = 1

\* C6 (stop reaches Stopped): a loop thread ends only at the top of an
\* iteration and with the flag down, and whenever the flag is down, either it
\* is raised again by a start or every loop thread ends.
C6_StopReachesStopped ==
    /\ [][\A th \in Loops : (pc[th] # "none" /\ pc'[th] = "none") =>
                                (pc[th] = "top" /\ ~monitoring_active)]_vars
    /\ (~monitoring_active) ~>
           (monitoring_active \/ \A th \in Loops : pc[th] = "none")

\* monitoring has run (a loop forwarded an alert), was stopped, and no loop is
\* left
C6_Witness ==
    /\ ~monitoring_active
    /\ forwarded # None
    /\ \A th \in Loops : pc[th] = "none"

\* C7 (fault isolation): in an iteration of the loop the soil check runs
\* first and the weather check second; a check in which an exception is
\* raised returns to the loop like any other, so that after the soil check the
\* weather check runs and after the weather check the loop goes to sleep and
\* on to its next iteration.
C7_FaultIsolation ==
    [][\A th \in Loops :
          /\ (pc[th] = "check_soil" /\ pc'[th] # "check_soil") => ran[th] = {}
          /\ (pc[th] = "check_weather" /\ pc'[th] # "check_weather") =>
                ran[th] = {"soil"}
          /\ "soil" \in raised'[th] \ raised[th] => pc'[th] = "check_weather"
          /\ "weather" \in raised'[th] \ raised[th] => pc'[th] = "complete"
          /\ pc[th] = "complete" => ran[th] = {"soil", "weather"}
          /\ (pc[th] = "complete" /\ pc'[th] # "complete") => pc'[th] = "sleep"
          /\ (pc[th] = "sleep" /\ pc'[th] # "sleep") => pc'[th] = "top"]_vars

\* an iteration in which the soil check raised and the weather check ran all
\* the same
C7_Witness ==
    \E th \in Loops :
        pc[th] = "complete" /\ "soil" \in raised[th] /\ "weather" \in ran[th]

\* C8 (scheduler liveness): no loop thread ends while the flag is up, and if
\* from some time on the flag stays up, the soil check and the weather check
\* are both run again and again, whatever exceptions were raised.
C8_SchedulerLiveness ==
    /\ [][\A th \in Loops : (pc[th] # "none" /\ pc'[th] = "none") =>
                                ~monitoring_active]_vars
    /\ (<>[]monitoring_active) =>
           /\ []<>(\E th \in Loops : pc[th] = "check_weather" /\ ran[th] = {"soil"})
           /\ []<>(\E th \in Loops : pc[th] = "complete" /\ "weather" \in ran[th])

\* the loop's handler has caught an exception and a later iteration has run
\* both checks
C8_Witness ==
    /\ monitoring_active
    /\ faults >= 1
    /\ \E th \in Loops : pc[th] = "complete" /\ ran[th] = {"soil", "weather"}

\* C9 (check-now shares the gate): a check-now request runs the soil check and
\* then the weather check before it returns, and reads the timestamps the
\* scheduler writes, as the scheduler reads those of check-now: an offer that
\* begins after the other context forwarded an alert of the same key is
\* decided Sent only if that forward lies a window or more back.
C9_SharedGate ==
    /\ \A h \in Handlers :
          /\ pc[h] = "check_weather" => ran[h] = {"soil"}
          /\ pc[h] = "return" => ran[h] = {"soil", "weather"}
    /\ \A th \in Threads :
          (/\ pc[th] = "send"
           /\ forwarded # None
           /\ forwarded[1].by # Kind(th)
           /\ forwarded[1].dom = dom[th]
           /\ forwarded[1].key = Head(todo[th])
           /\ seen[th] = sent_at[dom[th]][Head(todo[th])])
              => Now - sent_at[dom[th]][Head(todo[th])][1] >= Window(dom[th])

\* a check-now offer has been Suppressed on the timestamp of an alert the
\* scheduler forwarded
C9_Witness ==
    \E h \in Handlers :
        /\ offered[h] # None
        /\ offered[h][1].result = "Suppressed"
        /\ forwarded # None
        /\ forwarded[1].by = "scheduler"
        /\ forwarded[1].dom = offered[h][1].dom
        /\ forwarded[1].key = offered[h][1].key

C12_SoilResult ==
    (ev_in # None /\ ev_in.kind = "soil" /\ db) =>
        \A i \in DOMAIN ev_calls :
            LET r == ev_in.r
                out == ev_calls[i].out
                has(t, s) == \E j \in DOMAIN out : out[j] = Alert(t, s)
                metric(t) ==
                    IF t \in {"critical_low_moisture", "critical_high_moisture"}
                        THEN 1
                    ELSE IF t \in {"critical_high_soil_temp",
                                   "critical_low_soil_temp"} THEN 2
                    ELSE 3
            IN  /\ has("critical_low_moisture", "high") <=> r.moisture < 20
                /\ has("critical_high_moisture", "high") <=> r.moisture > 85
                /\ has("critical_high_soil_temp", "high") <=> r.temperature > 35
                /\ has("critical_low_soil_temp", "medium") <=> r.temperature < 5
                /\ has("critical_acidic_soil", "medium") <=> r.pH < 50
                /\ has("critical_alkaline_soil", "medium") <=> r.pH > 85
                /\ \A j \in DOMAIN out :
                      out[j] \in {Alert("critical_low_moisture", "high"),
                                  Alert("critical_high_moisture", "high"),
                                  Alert("critical_high_soil_temp", "high"),
                                  Alert("critical_low_soil_temp", "medium"),
                                  Alert("critical_acidic_soil", "medium"),
                                  Alert("critical_alkaline_soil", "medium")}
                /\ \A j, k \in DOMAIN out :
                      j < k => metric(out[j].type) < metric(out[k].type)
                /\ Len(out) <= 3

\* a stored reading critical in all three metrics has been evaluated
C12_Witness ==
    /\ ev_in # None /\ ev_in.kind = "soil" /\ db
    /\ ev_calls # <<>>
    /\ Len(ev_calls[1].out) = 3

\* C13: with no reachable store every soil check evaluates the fixed mock
\* reading (moisture 15, temperature 15, pH 4.5) whatever the sensors hold, and
\* returns exactly critical_low_moisture (high) then critical_acidic_soil
\* (medium), the sequence the store-backed evaluator returns for that reading.
C13_DiagnosticSoil ==
    (ev_in # None /\ ev_in.kind = "soil" /\ ~db) =>
        \A i \in DOMAIN ev_calls :
            /\ ev_calls[i].out = <<Alert("critical_low_moisture", "high"),
                                   Alert("critical_acidic_soil", "medium")>>
            /\ ev_calls[i].out =
                   SoilAlerts([temperature |-> 15, moisture |-> 15, pH |-> 45])

\* a diagnostic-mode check has returned while the sensors held another reading
C13_Witness ==
    /\ ev_in # None /\ ev_in.kind = "soil" /\ ~db
    /\ ev_in.r # mock_critical_soil
    /\ Len(ev_calls) = 2

C15_ContextNeverSuppresses ==
    (ev_in # None /\ ev_in.kind = "weather") =>
        \A i, j \in DOMAIN ev_calls :
            (/\ ev_calls[i].ctx = None
             /\ ev_calls[j].ctx # None
             /\ ev_calls[i].heavy = ev_calls[j].heavy) =>
                \A a \in DOMAIN ev_calls[i].out :
                    \E b \in DOMAIN ev_calls[j].out :
                        /\ ev_calls[j].out[b].type = ev_calls[i].out[a].type
                        /\ ev_calls[i].out[a].severity = "high"
                               => ev_calls[j].out[b].severity = "high"

\* a hot, dry reading has been evaluated without a soil context and with the
\* context of a soil in drought
C15_Witness ==
    /\ ev_in # None /\ ev_in.kind = "weather"
    /\ Len(ev_calls) = 2
    /\ ev_calls[1].ctx = None
    /\ ev_calls[2].ctx # None
    /\ ev_calls[2].ctx[1].soil_moisture = 19
    /\ \E a \in DOMAIN ev_calls[1].out :
          ev_calls[1].out[a] = Alert("dry_conditions", "medium")
    /\ \E b \in DOMAIN ev_calls[2].out :
          ev_calls[2].out[b] = Alert("soil_drought", "high")

\* C16: two evaluations of the same reading return the same alert sequence
\* (types, severities and order), whatever the store holds and whatever the
\* forecast provider or the random fallback forecast gives.
C16_Deterministic ==
    (ev_in # None /\ ev_in.kind \in {"soil", "weather"}) =>
        \A i, j \in DOMAIN ev_calls : ev_calls[i].out = ev_calls[j].out

\* C17: creating alerts is decoupled from dispatching them.  The step in which
\* a check evaluates its reading hands nothing to the notification channel and
\* leaves both cooldown maps as they are; and a cooldown timestamp is written
\* only by the send step of a dispatch loop, for the key of the offer that the
\* thread has just decided to send.
C17_EvaluationDecoupled ==
    [][/\ \A th \in Threads :
             (pc[th] \in {"check_soil", "check_weather"} /\ pc'[th] # pc[th])
                 => /\ last_soil_alert' = last_soil_alert
                    /\ last_weather_alert' = last_weather_alert
                    /\ forwarded' = forwarded
       /\ \A d \in {"soil", "weather"} : \A k \in KeysOf(d) :
             (CooldownMap(d)[k] # <<Now>> /\ CooldownMap(d)'[k] = <<Now>>)
                 => \E th \in Threads :
                       /\ pc[th] = "send" /\ pc'[th] # "send"
                       /\ dom[th] = d /\ Head(todo[th]) = k
                       /\ offered[th] # None
                       /\ offered[th][1].key = k
                       /\ offered[th][1].result = "Sent"]_vars

\* a weather check has created alerts after a soil alert was sent, and the
\* weather cooldown map holds no timestamp yet
C17_Witness ==
    /\ \E th \in Threads :
          pc[th] = "read" /\ dom[th] = "weather" /\ todo[th] # <<>>
    /\ \A k \in WeatherKeys : last_weather_alert[k] = None
    /\ \E k \in SoilKeys : last_soil_alert[k] # None
    /\ forwarded # None

\* C18: for every weather reading, soil context and forecast the weather
\* evaluator returns, in this order and each at most once, extreme_heat iff
\* temperature > 30 under a Clear or Sun sky; rain_warning iff the sky is Rain
\* or Thunderstorm or the description contains "rain"; high_uv iff uv_index > 8;
\* dry_conditions iff humidity < 30 and temperature > 25; and, with a soil
\* context only, soil_overheating iff soil_temperature > 28, then soil_drought
\* iff soil_moisture < 20 or soil_waterlogged iff soil_moisture > 85; and no
\* other alert.
C18_WeatherTypes ==
    (ev_in # None /\ ev_in.kind = "weather") =>
        \A i \in DOMAIN ev_calls :
            LET w == ev_in.r
                ctx == ev_calls[i].ctx
                out == ev_calls[i].out
                has(t) == \E j \in DOMAIN out : out[j].type = t
                rank(t) == CASE t = "extreme_heat" -> 1
                             [] t = "rain_warning" -> 2
                             [] t = "high_uv" -> 3
                             [] t = "dry_conditions" -> 4
                             [] t = "soil_overheating" -> 5
                             [] t = "soil_drought" -> 6
                             [] t = "soil_waterlogged" -> 6
                             [] OTHER -> 0
            IN  /\ has("extreme_heat")
                      <=> (w.temperature > 30 /\ w.main \in {"Clear", "Sun"})
                /\ has("rain_warning")
                      <=> (w.main \in {"Rain", "Thunderstorm"} \/ w.rainy)
                /\ has("high_uv")
                      <=> (w.uv_index # None /\ w.uv_index[1] > 8)
                /\ has("dry_conditions")
                      <=> (w.humidity < 30 /\ w.temperature > 25)
                /\ has("soil_overheating")
                      <=> (ctx # None /\ ctx[1].soil_temperature > 28)
                /\ has("soil_drought")
                      <=> (ctx # None /\ ctx[1].soil_moisture < 20)
                /\ has("soil_waterlogged")
                      <=> (ctx # None /\ ctx[1].soil_moisture > 85)
                /\ \A j \in DOMAIN out : rank(out[j].type) > 0
                /\ \A j, k \in DOMAIN out :
                      j < k => rank(out[j].type) < rank(out[k].type)

\* a reading has been evaluated with the context of a soil in drought and five
\* alerts were returned, the last of them soil_drought
C18_Witness ==
    /\ ev_in # None /\ ev_in.kind = "weather"
    /\ \E i \in DOMAIN ev_calls :
          /\ ev_calls[i].ctx # None
          /\ Len(ev_calls[i].out) = 5
          /\ ev_calls[i].out[5].type = "soil_drought"

\* C19: calculate_motion of a landmark set against no previous set (a first
\* sighting) is 0 with no active joint, for every set and kind; so is
\* calculate_motion of a set against itself; and no pair of sets has a
\* negative motion.
C19_MotionAtRest ==
    (ev_in # None /\ ev_in.kind = "motion") =>
        \A i \in DOMAIN ev_calls :
            /\ ev_in.prev = None
                  => /\ ev_calls[i].out.motion = 0
                     /\ ev_calls[i].out.active_joints = <<>>
            /\ ev_in.prev = <<ev_in.current>>
                  => /\ ev_calls[i].out.motion = 0
                     /\ ev_calls[i].out.active_joints = <<>>
            /\ ev_calls[i].out.motion >= 0

\* the first sighting of a subject that is not at rest has been scored
C19_Witness ==
    /\ ev_in # None /\ ev_in.kind = "motion"
    /\ ev_in.prev = None
    /\ ev_in.current = Moved
    /\ ev_calls # <<>>
    /\ ev_calls[1].out.motion = 0

\* C20: in every frame, each entity that is seen is scored against the
\* landmarks the tracker holds for its id, which are those of the most recent
\* earlier frame that saw the id (nothing when there was none, and then the
\* motion is 0), and the tracker then holds the current landmarks for the id,
\* whether or not the motion exceeds the detection threshold; the landmarks of
\* an id that is not seen stay as they are.
C20_TrackerUpdate ==
    [][/\ \A i \in PoseIds :
             IF scored'["0"] # None
                 THEN /\ scored'["0"][1].prev = prev_poses[i]
                      /\ prev_poses'[i] = <<scored'["0"][1].current>>
                      /\ scored'["0"][1].motion =
                            IF prev_poses[i] = None THEN 0
                            ELSE Motions["pose"][scored'["0"][1].current]
                                        [prev_poses[i][1]].motion
                 ELSE prev_poses'[i] = prev_poses[i]
       /\ \A i \in HandIds :
             IF scored'[HandKey(i)] # None
                 THEN /\ scored'[HandKey(i)][1].prev = prev_hands[i]
                      /\ prev_hands'[i] = <<scored'[HandKey(i)][1].current>>
                      /\ scored'[HandKey(i)][1].motion =
                            IF prev_hands[i] = None THEN 0
                            ELSE Motions["hands"][scored'[HandKey(i)][1].current]
                                        [prev_hands[i][1]].motion
                 ELSE prev_hands'[i] = prev_hands[i]]_vars

\* the pose subject has been seen again with a motion that does not exceed the
\* threshold, and the tracker holds its new landmarks
C20_Witness ==
    /\ scored["0"] # None
    /\ scored["0"][1].prev # None
    /\ scored["0"][1].prev # <<scored["0"][1].current>>
    /\ scored["0"][1].motion <= DEFAULT_THRESHOLD
    /\ prev_poses[0] = <<scored["0"][1].current>>
    /\ scored["hand_1"] = None
    /\ prev_hands[1] # None

\* C21: a frame that sees an entity for the first time, or with the very
\* landmarks the tracker holds for it, records no detection for the entity: its
\* counter and the time of its last detection stay as they are, it is not in
\* the detections of the frame, and it is active (last detected less than a
\* second ago) after the frame only if it was before.
C21_NoDetectionWithoutMotion ==
    [][\A e \in Entities :
          (/\ scored'[e] # None
           /\ \/ scored'[e][1].prev = None
              \/ scored'[e][1].prev = <<scored'[e][1].current>>)
              => /\ detection_counts'[e] = detection_counts[e]
                 /\ last_detections'[e] = last_detections[e]
                 /\ e \notin detections'
                 /\ (/\ last_detections'[e] # None
                     /\ Elapsed(last_detections'[e]) < ActiveWindow)
                        => (/\ last_detections[e] # None
                            /\ Elapsed(last_detections[e]) < ActiveWindow)]_vars

\* hand_0 has been seen twice with the same landmarks while the pose subject
\* moved: the frame detected the pose subject only, and hand_0 was never detected
C21_Witness ==
    /\ scored["hand_0"] # None
    /\ scored["hand_0"][1].prev = <<scored["hand_0"][1].current>>
    /\ detection_counts["hand_0"] = 0
    /\ last_detections["hand_0"] = None
    /\ detections = {"0"}

\* C22: the id given to a hand is stable within a session: whenever a hand is
\* scored against previous landmarks, these are landmarks of the same physical
\* hand, also when other hands enter or leave the frame or are listed in
\* another order.
C22_StableHandIdentity ==
    [][\A i \in HandIds :
          (/\ hand_owner'[i] # None
           /\ scored'[HandKey(i)] # None
           /\ scored'[HandKey(i)][1].prev # None
           /\ hand_owner[i] # None)
              => hand_owner'[i] = hand_owner[i]]_vars

\* C23: a reading with a missing field is evaluated with the default of that
\* field and the predicates on its other fields still produce their alerts: a
\* soil document fires exactly the alerts of the fields it has (the defaults
\* 20, 50 and 7.0 fire none), and a weather reading that lacks temperature,
\* humidity, main or description still yields the alerts of the predicates
\* whose fields it has.
C23_MalformedTolerated ==
    /\ (ev_in # None /\ ev_in.kind = "soil_doc") =>
          \A i \in DOMAIN ev_calls :
              LET r == ev_in.data
                  out == ev_calls[i].out
                  has(t) == \E j \in DOMAIN out : out[j].type = t
              IN  /\ ~ev_calls[i].raised
                  /\ has("critical_low_moisture")
                        <=> (r.moisture # None /\ r.moisture[1] < 20)
                  /\ has("critical_high_soil_temp")
                        <=> (r.temperature # None /\ r.temperature[1] > 35)
                  /\ has("critical_acidic_soil")
                        <=> (r.pH # None /\ r.pH[1] < 50)
                  /\ Len(out) <= 3
    /\ (ev_in # None /\ ev_in.kind = "weather_doc") =>
          \A i \in DOMAIN ev_calls :
              LET w == ev_in.data
                  out == ev_calls[i].out
                  has(t) == \E j \in DOMAIN out : out[j].type = t
              IN  /\ ~ev_calls[i].raised
                  /\ (w.uv_index # None /\ w.uv_index[1] > 8) => has("high_uv")
                  /\ (/\ w.temperature # None /\ w.temperature[1] > 30
                      /\ w.main # None /\ w.main[1] \in {"Clear", "Sun"})
                        => has("extreme_heat")
                  /\ (/\ w.humidity # None /\ w.humidity[1] < 30
                      /\ w.temperature # None /\ w.temperature[1] > 25)
                        => has("dry_conditions")
                  /\ (\/ w.main # None /\ w.main[1] \in {"Rain", "Thunderstorm"}
                      \/ w.rainy # None /\ w.rainy[1])
                        => has("rain_warning")

C25_StatusCounts ==
    [][/\ get_status'.active = monitoring_active'
       /\ get_status'.last_soil_alerts =
             Cardinality({k \in SoilKeys : sent_at'["soil"][k] # None})
       /\ get_status'.last_weather_alerts =
             Cardinality({k \in WeatherKeys : sent_at'["weather"][k] # None})
       /\ get_status'.last_soil_alerts >= get_status.last_soil_alerts
       /\ get_status'.last_weather_alerts >= get_status.last_weather_alerts]_vars

\* monitoring is not active, alerts of both domains have been sent, and the
\* cooldown of a counted soil key is over
C25_Witness ==
    /\ ~get_status.active
    /\ get_status.last_soil_alerts >= 1
    /\ get_status.last_weather_alerts >= 1
    /\ \E k \in SoilKeys :
          /\ last_soil_alert[k] # None
          /\ Elapsed(last_soil_alert[k]) > Window("soil")

\* C26: whatever start_monitoring and stop_monitoring calls have been made, and
\* however they interleave with the loop, at most one monitoring loop thread is
\* running at any time.
C26_AtMostOneLoop ==
    Cardinality({th \in Loops : pc[th] # "none"}) <= 1

\* C27: cancellation is cooperative.  A stop_monitoring call leaves a loop
\* thread where it is, an iteration in progress is not cut short (the thread
\* ends nowhere but at the top of an iteration, and only with the flag down),
\* and an iteration that completes has run both the soil check and the weather
\* check.
C27_CooperativeCancellation ==
    [][\A th \in Loops :
          /\ (monitoring_active /\ ~monitoring_active')
                => /\ pc'[th] = pc[th]
                   /\ todo'[th] = todo[th]
                   /\ timer'[th] = timer[th]
          /\ (pc[th] # "none" /\ pc'[th] = "none")
                => (pc[th] = "top" /\ ~monitoring_active)
          /\ (pc[th] # "complete" /\ pc'[th] = "complete")
                => ran'[th] = {"soil", "weather"}]_vars

\* monitoring has been stopped during an iteration whose loop is now about to
\* send a weather alert
C27_Witness ==
    /\ ~monitoring_active
    /\ \E th \in Loops :
          pc[th] = "send" /\ dom[th] = "weather" /\ ran[th] = {"soil", "weather"}

\* C28: when a loop thread goes to sleep after an iteration, it sleeps 60
\* seconds if an exception reached the top-level handler of the loop, and the
\* full check interval of 300 seconds otherwise, also when a check of the
\* iteration caught a failure of its own.
C28_BackoffSelection ==
    [][\A th \in Loops :
          (pc[th] # "sleep" /\ pc'[th] = "sleep")
              => timer'[th] = IF faults' # faults THEN 60 ELSE 300]_vars

\* a loop that has once backed off after a top-level failure has now completed
\* an iteration and sleeps the full interval
C28_Witness ==
    /\ faults = 1
    /\ \E th \in Loops : pc[th] = "sleep" /\ timer[th] = 300

\* C29: the window an offer is compared with depends on the domain alone: 3600
\* seconds for a soil offer with a store, 300 seconds for a soil offer in
\* diagnostic mode, 7200 seconds for a weather offer, whatever the type and
\* severity of the alert: the offer is sent iff the key has no timestamp or
\* more than that window has passed since.
C29_WindowPerDomain ==
    [][\A th \in Threads :
          (pc[th] = "cmp" /\ pc'[th] # "cmp")
              => /\ offered'[th] # None
                 /\ offered'[th][1].result =
                       IF \/ last_sent[th] = None
                          \/ Elapsed(last_sent[th]) >
                                (IF dom[th] = "soil"
                                    THEN (IF db THEN 3600 ELSE 300)
                                    ELSE 7200)
                           THEN "Sent" ELSE "Suppressed"]_vars

\* a weather offer has been suppressed more than an hour after the alert of
\* its key was sent
C29_Witness ==
    \E th \in Threads :
        /\ offered[th] # None
        /\ offered[th][1].dom = "weather"
        /\ offered[th][1].result = "Suppressed"
        /\ offered[th][1].since # None
        /\ offered[th][1].since[1] > 3600

\* C30: the cooldown maps only grow.  No step, stop_monitoring included, takes
\* a key out of a map or resets it, and a step of a thread never replaces the
\* timestamp of a key by an earlier one; apart from the passing of time, which
\* ages every timestamp alike, a map changes only by a thread's step.
C30_CooldownOnlyGrows ==
    [][\A d \in {"soil", "weather"} : \A k \in KeysOf(d) :
          CooldownMap(d)[k] # None
              => /\ CooldownMap(d)'[k] # None
                 /\ pc' # pc => CooldownMap(d)'[k][1] >= CooldownMap(d)[k][1]
                 /\ (pc' = pc /\ CooldownMap(d)'[k] # CooldownMap(d)[k])
                       => /\ CooldownMap(d)'[k][1] < CooldownMap(d)[k][1]
                          /\ sent_at'[d][k] # sent_at[d][k]
                          /\ monitoring_active' = monitoring_active]_vars

\* the loop has sent alerts and monitoring has been stopped since, and both
\* maps still hold a timestamp taken some time ago
C30_Witness ==
    /\ ~monitoring_active
    /\ \A th \in Loops : pc[th] = "none"
    /\ forwarded # None /\ forwarded[1].by = "scheduler"
    /\ \E k \in SoilKeys :
          last_soil_alert[k] # None /\ Elapsed(last_soil_alert[k]) > 0
    /\ \E k \in WeatherKeys :
          last_weather_alert[k] # None /\ Elapsed(last_weather_alert[k]) > 0

\* C31: an offer for a key reads and writes the timestamp of that key only:
\* the step that reads takes the timestamp of the offered key, and no step of
\* an offer changes the timestamp of another key of the map or any key of the
\* other domain's map.
C31_KeysIndependent ==
    [][\A th \in Threads :
          (pc[th] \in {"read", "cmp", "send"} /\ pc'[th] # pc[th])
              => /\ \A d \in {"soil", "weather"} : \A k \in KeysOf(d) :
                       (d # dom[th] \/ k # Head(todo[th]))
                           => CooldownMap(d)'[k] = CooldownMap(d)[k]
                 /\ pc[th] = "read"
                       => last_sent'[th] =
                              CooldownMap(dom[th])[Head(todo[th])]]_vars

\* a thread has decided to send the alert of a key that has no timestamp while
\* the cooldown of another key of the same map is running
C31_Witness ==
    \E th \in Threads :
        /\ pc[th] = "send"
        /\ last_sent[th] = None
        /\ CooldownMap(dom[th])[Head(todo[th])] = None
        /\ \E k \in KeysOf(dom[th]) :
              /\ k # Head(todo[th])
              /\ CooldownMap(dom[th])[k] # None
              /\ Elapsed(CooldownMap(dom[th])[k]) <= Window(dom[th])

\* C32: the severity of a weather alert follows its rule: extreme_heat is high
\* iff temperature > 35; rain_warning is high iff more than 3 periods of the
\* forecast have a precipitation above 5; dry_conditions is high iff there is a
\* soil context with soil_moisture < 30; high_uv is always medium;
\* soil_overheating, soil_drought and soil_waterlogged are always high; and
\* every other severity is medium.
C32_WeatherSeverity ==
    (ev_in # None /\ ev_in.kind = "weather") =>
        \A i \in DOMAIN ev_calls : \A j \in DOMAIN ev_calls[i].out :
            LET a == ev_calls[i].out[j]
                ctx == ev_calls[i].ctx
                forecast == ev_calls[i].forecast
                high ==
                    CASE a.type = "extreme_heat" -> ev_in.r.temperature > 35
                      [] a.type = "rain_warning" ->
                            Cardinality({p \in DOMAIN forecast :
                                            forecast[p] > 5}) > 3
                      [] a.type = "dry_conditions" ->
                            ctx # None /\ ctx[1].soil_moisture < 30
                      [] a.type = "high_uv" -> FALSE
                      [] OTHER -> TRUE
            IN  a.severity = IF high THEN "high" ELSE "medium"

\* a rainy reading has been evaluated with a forecast of exactly 3 periods of
\* heavy rain and one period at the threshold: the rain warning is medium
C32_Witness ==
    /\ ev_in # None /\ ev_in.kind = "weather"
    /\ \E i \in DOMAIN ev_calls :
          /\ ev_calls[i].forecast = <<6, 6, 6, 5, 0>>
          /\ \E j \in DOMAIN ev_calls[i].out :
                ev_calls[i].out[j] = Alert("rain_warning", "medium")

\* C33: in a call of calculate_motion with a previous landmark set, a pair of
\* a pose contributes iff the current landmark's visibility exceeds 0.3 and
\* every pair of a hand contributes; the reported joints are exactly the names
\* of the contributing pairs whose distance exceeds 0.001 and whose index is
\* one of the 13 named pose indices or of the 6 named hand indices; and the
\* magnitude is the mean of the contributing distances, 0 when there is none.
C33_ComparedAndActive ==
    (/\ ev_in # None /\ ev_in.kind = "motion"
     /\ ev_in.prev # None
     /\ ev_in.landmark_type \in {"pose", "hands"}) =>
        LET cur == ev_in.current
            old == ev_in.prev[1]
            pose == ev_in.landmark_type = "pose"
            named == IF pose THEN {0} \cup (11..16) \cup (23..28)
                     ELSE {0, 4, 8, 12, 16, 20}
            names == IF pose THEN joint_names ELSE finger_names
            pairs == 1..Min(Len(cur), Len(old))
            contributes == {i \in pairs : pose => cur[i].visibility > 30}
            total == Sum([i \in pairs |->
                            IF i \in contributes THEN Dist(cur[i], old[i])
                            ELSE 0])
            moved == {i \in contributes :
                        Dist(cur[i], old[i]) > 10 /\ (i - 1) \in named}
        IN  /\ DOMAIN names = named
            /\ Cardinality(named) = IF pose THEN 13 ELSE 6
            /\ \A c \in DOMAIN ev_calls :
                  LET out == ev_calls[c].out
                  IN  /\ out.motion * Cardinality(contributes) = total
                      /\ contributes = {} => out.motion = 0
                      /\ Len(out.active_joints) = Cardinality(moved)
                      /\ {out.active_joints[j] :
                             j \in DOMAIN out.active_joints}
                            = {names[i - 1] : i \in moved}

\* a pose whose named joint moved far but is not visible enough has been
\* scored against a pose at rest: the only contributing pair did not move
C33_Witness ==
    /\ ev_in # None /\ ev_in.kind = "motion"
    /\ ev_in.landmark_type = "pose"
    /\ ev_in.current = Hidden /\ ev_in.prev = <<Still>>
    /\ \E c \in DOMAIN ev_calls :
          ev_calls[c].out = [motion |-> 0, active_joints |-> <<>>]

\* C34: processing a frame adds exactly 1 to the detection counter of an
\* entity and sets its last-detection time to the time of the frame iff the
\* motion of that entity in the frame is strictly greater than 0.001, and
\* leaves both as they are otherwise; and in every reachable state an entity
\* has a last-detection time iff it has a detection count, which is then at
\* least 1.
C34_DetectionRecording ==
    /\ [](\A e \in Entities :
             /\ detection_counts[e] >= 0
             /\ last_detections[e] # None <=> detection_counts[e] >= 1)
    /\ [][\A e \in Entities :
             LET kind == IF e = "0" THEN "pose" ELSE "hands"
                 s == scored'[e]
                 motion ==
                     IF s = None \/ s[1].prev = None THEN 0
                     ELSE Motions[kind][s[1].current][s[1].prev[1]].motion
             IN  IF motion > 10
                     THEN /\ detection_counts'[e] = detection_counts[e] + 1
                          /\ last_detections'[e] = <<Now>>
                 ELSE /\ detection_counts'[e] = detection_counts[e]
                      /\ last_detections'[e] = last_detections[e]]_vars

\* a frame has been processed in which the pose subject moved by exactly the
\* threshold and was not recorded, while the first hand was recorded for the
\* second time
C34_Witness ==
    /\ scored["0"] # None
    /\ scored["0"][1].prev # None
    /\ scored["0"][1].motion = DEFAULT_THRESHOLD
    /\ "0" \notin detections
    /\ detection_counts["0"] = 0
    /\ "hand_0" \in detections
    /\ detection_counts["hand_0"] = 2

\* C35: the pose subject and the hands are tracked independently, although the
\* pose subject and the first hand both have index 0.  A frame leaves the
\* previous landmarks, the detection counter and the last-detection time of
\* every entity it does not show as they are; the pose subject is scored
\* against prev_poses only and a hand against its own entry of prev_hands
\* only, and that score alone decides whether the entity is recorded.
C35_IndependentEntities ==
    [][/\ scored'["0"] = None
             => /\ prev_poses' = prev_poses
                /\ detection_counts'["0"] = detection_counts["0"]
                /\ last_detections'["0"] = last_detections["0"]
       /\ scored'["0"] # None
             => /\ scored'["0"][1].prev = prev_poses[0]
                /\ prev_poses'[0] = <<scored'["0"][1].current>>
                /\ detection_counts'["0"] # detection_counts["0"]
                      <=> /\ prev_poses[0] # None
                          /\ Motions["pose"][prev_poses'[0][1]]
                                    [prev_poses[0][1]].motion > 10
       /\ \A i \in HandIds :
             /\ scored'[HandKey(i)] = None
                   => /\ prev_hands'[i] = prev_hands[i]
                      /\ detection_counts'[HandKey(i)]
                            = detection_counts[HandKey(i)]
                      /\ last_detections'[HandKey(i)]
                            = last_detections[HandKey(i)]
             /\ scored'[HandKey(i)] # None
                   => /\ scored'[HandKey(i)][1].prev = prev_hands[i]
                      /\ prev_hands'[i] = <<scored'[HandKey(i)][1].current>>
                      /\ detection_counts'[HandKey(i)]
                               # detection_counts[HandKey(i)]
                            <=> /\ prev_hands[i] # None
                                /\ Motions["hands"][prev_hands'[i][1]]
                                          [prev_hands[i][1]].motion > 10]_vars

\* a frame without a pose subject has been processed in which the first hand
\* moved: the hand is recorded, and the pose subject keeps its own previous
\* landmarks, which differ from the hand's, and its own count
C35_Witness ==
    /\ scored["0"] = None
    /\ prev_poses[0] # None
    /\ prev_hands[0] # None
    /\ prev_poses[0] # prev_hands[0]
    /\ "hand_0" \in detections
    /\ detection_counts["hand_0"] = 1
    /\ detection_counts["0"] = 2

\* C36: with a reachable store, the alerts of a soil check are those of the
\* most recent document of its query alone, whatever the older documents of
\* the same query hold; and a query that returns no document gives no alert
\* and offers no key to the dispatch loops, so that no cooldown changes.
C36_LatestReadingOnly ==
    (ev_in # None /\ ev_in.kind = "soil_query") =>
        \A c \in DOMAIN ev_calls :
            IF ev_in.docs = <<>>
                THEN ev_calls[c].out = <<>> /\ ev_calls[c].todo = <<>>
            ELSE LET latest == ev_in.docs[1]
                     r == [temperature |-> Get(latest.temperature, 20),
                           moisture |-> Get(latest.moisture, 50),
                           pH |-> Get(latest.pH, 70)]
                 IN  /\ ev_calls[c].out = SoilAlerts(r)
                     /\ ev_calls[c].todo = Offers(get_user_emails, SoilAlerts(r))

\* a query returned five documents of which the latest is normal and the four
\* older ones are dry, and the check found no alert
C36_Witness ==
    /\ ev_in # None /\ ev_in.kind = "soil_query"
    /\ Len(ev_in.docs) = 5
    /\ ev_in.docs[1].moisture = <<50>> /\ ev_in.docs[1].temperature = <<20>>
    /\ \A i \in 2..5 : ev_in.docs[i].moisture = <<15>>
    /\ \E c \in DOMAIN ev_calls : ev_calls[c].out = <<>>

C38_MockLabelOnlyForMock ==
    (ev_in # None /\ ev_in.kind = "summary") =>
        \A c \in DOMAIN ev_calls :
            ev_calls[c].out.summary = "(Mock data)"
                => ev_calls[c].out.weather = "realistic_mock"

====
